---- MODULE Spec2Model ----
(***************************************************************************)
(* GreedyPirates: the server's connection handlers (src/network/server.py) *)
(* driving the round state machine (src/core/game_state.py), and the       *)
(* treasure payout rule (src/core/treasure.py).                            *)
(*                                                                         *)
(* Spec       the server: one action per handler of GameServer, each       *)
(*            including every GameState call it makes.  A handler runs     *)
(*            without interleaving up to its next real suspension, the     *)
(*            asyncio.sleep(2) of GameServer.end_round: StreamWriter.drain *)
(*            returns without yielding while the transport is open and     *)
(*            below its high-water mark, and writes are taken to succeed.  *)
(* FairSpec   Spec with the event loop's guarantee that a sleeping         *)
(*            end_round is resumed.                                        *)
(* DrainSpec  Spec where the drain of end_round's broadcast may suspend    *)
(*            the task (a transport written to is paused or closing).      *)
(* FailSpec   Spec where the transport of a joined connection may be lost  *)
(*            while the connection is still in self.clients, so that a     *)
(*            send to it fails.                                            *)
(* WideSpec   FairSpec with one more connection, each joining once.        *)
(* LineSpec   Spec with the lines handle_client reads and does not         *)
(*            dispatch (undecodable, empty, or of another message type).   *)
(* CryptoSpec GameClient.send_bid and GameClient.handle_bid on one bid.    *)
(* VerifySpec GameState.process_decrypted_bid called on a GameState.       *)
(* PayoutSpec the pure payout functions applied to bounded bid maps.       *)
(* ProtoSpec  Protocol.serialize / deserialize / validate_message on one   *)
(*            message or line (src/network/protocol.py).                   *)
(* KeySpec    KeyManager's session-key wrapping and AES-CBC encryption on  *)
(*            one payload (src/crypto/keys.py).                            *)
(* SmpcSpec   n BidManagers exchanging the shares of their bids and        *)
(*            computing the total (src/crypto/smpc.py).                    *)
(* ShareSpec  SMPCProtocol.generate_shares / reconstruct_secret and        *)
(*            BidManager.create_bid_shares on one input.                   *)
(* RoundSpec  GameState driven directly: add_player, start_round,          *)
(*            place_bid, end_round.                                        *)
(* ClientSpec one GameClient handling the server's messages and send_bid.  *)
(***************************************************************************)
EXTENDS Integers, FiniteSets, Sequences, TLC

(* ------------------------------ bounds -------------------------------- *)

\* connections the server accepts during a run (each has its own client_id)
NumConns == 3
\* the configured number of rounds (Config "game"/"max_rounds"), kept small
max_rounds == 2
\* rounds the server is followed through (it never stops by itself)
MaxCloses == 2

\* GameState.max_players, the roster size the game is configured for (8 in
\* GameConfig, kept small here)
max_players == 3

\* bidders of the pure payout specification
NumPirates == 3
\* originators whose decrypted copies are recorded in VerifySpec
NumOriginators == 1
\* distinct non-empty values a message field takes in ProtoSpec
NumTokens == 2
\* the largest num_players a BidManager or SMPCProtocol is built with
NumManagers == 3
\* the bids they choose from, all within [0, TREASURE_AMOUNT]
BidValues == {0, 20, 30, 33, 34, 40, 50, 60, 100}

(* ------------------------- program constants -------------------------- *)

min_players == 3
StartGameClients == 3
TREASURE_AMOUNT == 100
\* the AES block size in bytes, as written in encrypt_with_session_key
BlockSize == 16
\* BidManager.__init__'s default max_bid
max_bid == 100

Conns == 1..NumConns
Pirates == 1..NumPirates

\* the empty dict
EmptyDict == [x \in {} |-> 0]

(* ------------------------------ payloads ------------------------------ *)

\* What message.data.get('encrypted_bids', {}) can be after json.loads:
\*   "map": a dict (val = number of entries); "num": a JSON number;
\*   "str": a numeric string such as "0".
MapPayload(n) == [kind |-> "map", val |-> n]
NumPayload(n) == [kind |-> "num", val |-> n]
StrPayload(n) == [kind |-> "str", val |-> n]

\* what the connections of Spec send: the empty map, an encrypted payload map
\* (the repository's own client) and the number 1
Payloads == {MapPayload(0), MapPayload(1), NumPayload(1)}

\* Python truthiness, as tested by `if not encrypted_bids`
Truthy(p) ==
    CASE p.kind = "map" -> p.val > 0
      [] p.kind = "num" -> p.val # 0
      [] OTHER -> TRUE

\* int(bid) raises TypeError for a dict
IntConvertible(p) == p.kind # "map"

IntOf(p) == p.val

(* ------------------------------ helpers ------------------------------- *)

RECURSIVE SumOver(_, _)
SumOver(f, S) ==
    IF S = {} THEN 0
    ELSE LET x == CHOOSE y \in S : TRUE
         IN f[x] + SumOver(f, S \ {x})

\* dict[key] = value
Put(d, k, v) == [x \in DOMAIN d \cup {k} |-> IF x = k THEN v ELSE d[x]]

(* ------------------------------- state -------------------------------- *)

VARIABLES
    clients,        \* GameServer.clients / player_names / player_keys: joined connections
    players,        \* GameState.players: the list, as client_id -> number of occurrences
    scores,         \* GameState.scores
    bids,           \* GameState.bids
    current_round,  \* GameState.current_round
    round_active,   \* GameState.round_active
    sleeping,       \* connections whose task is inside end_round's asyncio.sleep(2)
    closing,        \* tasks suspended in end_round's broadcast, each with the
                    \* len(self.clients) its dict iterator started from (DrainSpec)
    broken,         \* joined connections whose transport is lost while they are still
                    \* in self.clients: drain() on their writer raises (FailSpec)
    rounds_closed,  \* history: number of completed calculate_round_results calls
    out,            \* messages written to clients by the latest step
    bidder,         \* history: the joined connection whose Bid the latest step handled, else 0
    line_log,       \* history: the line the latest step read without dispatching it, else NoLog
    heard,          \* history: connection -> the latest of START_ROUND / END_ROUND written
                    \* to it while it is connected, else "none"
    bid_input,      \* CryptoSpec: the sending GameClient: player_id, amount, player_keys
    session_peers,  \* CryptoSpec: the peers each receiving GameClient holds a session key of
    bid_msg,        \* CryptoSpec: the Bid message as it leaves Protocol.deserialize
    bid_value,      \* CryptoSpec: recipient -> the bid_value its handle_bid decrypted
    decrypted_bids, \* GameState.decrypted_bids: originator -> (recipient -> value)
    raised,         \* VerifySpec: the exception the latest GameState call raised, or "none"
    end_result,     \* RoundSpec: what the latest GameState.end_round call returned or raised
    chest_bids,     \* PayoutSpec: the bid map under test
    chest_result,   \* PayoutSpec: TreasureChest.calculate_payouts(chest_bids)
    round_result,   \* PayoutSpec: GameState.calculate_round_results on chest_bids
    proto_msg,      \* ProtoSpec: the Message handed to Protocol.serialize, or NoMessage
    proto_line,     \* ProtoSpec: the line handed to Protocol.deserialize, or NoLine
    proto_result,   \* ProtoSpec: what Protocol.deserialize returned or raised
    proto_valid,    \* ProtoSpec: what Protocol.validate_message returned
    key_case,       \* KeySpec: the call under test: op, data, key, opener, tamper
    key_stage,      \* KeySpec: "idle", "input", "sealed", "tampered" or "opened"
    sealed,         \* KeySpec: what the encrypting call returned or raised
    opened,         \* KeySpec: what the decrypting call returned or raised
    smpc_n,         \* SmpcSpec: num_players the BidManagers p1..pn are built with
    smpc_bids,      \* SmpcSpec: manager -> the bid it calls create_bid_shares with
    shares,         \* SmpcSpec: manager -> what its create_bid_shares returned or raised
    current_shares, \* BidManager.current_shares of each manager: from_player -> value
    total,          \* SmpcSpec: the latest compute_total_bid call: manager and outcome
    smpc_call,      \* ShareSpec: the call under test: op, player_id, num_players, arg
    smpc_shares,    \* ShareSpec: what generate_shares / create_bid_shares returned or raised
    smpc_secret     \* ShareSpec: what reconstruct_secret returned

serverVars == <<clients, players, scores, bids, current_round, round_active,
                sleeping, closing, broken, rounds_closed, out, bidder, line_log,
                heard>>
payoutVars == <<chest_bids, chest_result, round_result>>
cryptoVars == <<bid_input, session_peers, bid_msg, bid_value>>
verifyVars == <<decrypted_bids, raised, end_result>>
protoVars == <<proto_msg, proto_line, proto_result, proto_valid>>
keyVars == <<key_case, key_stage, sealed, opened>>
smpcVars == <<smpc_n, smpc_bids, shares, current_shares, total,
              smpc_call, smpc_shares, smpc_secret>>
codecVars == <<proto_msg, proto_line, proto_result, proto_valid,
               key_case, key_stage, sealed, opened>>
vars == <<clients, players, scores, bids, current_round, round_active,
          sleeping, closing, broken, rounds_closed, out, bidder, line_log, heard,
          chest_bids, chest_result, round_result,
          bid_input, session_peers, bid_msg, bid_value,
          decrypted_bids, raised, end_result,
          proto_msg, proto_line, proto_result, proto_valid,
          key_case, key_stage, sealed, opened,
          smpc_n, smpc_bids, shares, current_shares, total,
          smpc_call, smpc_shares, smpc_secret>>

\* chest_result before calculate_payouts has run
NoResult ==
    [total_bid |-> -1, payouts |-> EmptyDict, valid_players |-> {}, exceeded_limit |-> FALSE]

(* --------------------------- core/treasure.py -------------------------- *)

\* calculate_payouts with `total_bid < self.total_amount` for `<=`
calculate_payouts_strict(b, total_amount) ==
    LET total_bid == SumOver(b, DOMAIN b)
        num_players == Cardinality(DOMAIN b)
    IN IF total_bid < total_amount
       THEN [total_bid |-> total_bid,
             payouts |-> b,
             valid_players |-> DOMAIN b,
             exceeded_limit |-> FALSE]
       ELSE LET valid == {p \in DOMAIN b : b[p] * num_players <= total_amount}
            IN [total_bid |-> total_bid,
                payouts |-> [p \in valid |-> total_amount \div Cardinality(valid)],
                valid_players |-> valid,
                exceeded_limit |-> TRUE]

\* calculate_payouts with the treasure split over num_players for len(valid_players)
calculate_payouts_all(b, total_amount) ==
    LET total_bid == SumOver(b, DOMAIN b)
        num_players == Cardinality(DOMAIN b)
    IN IF total_bid <= total_amount
       THEN [total_bid |-> total_bid,
             payouts |-> b,
             valid_players |-> DOMAIN b,
             exceeded_limit |-> FALSE]
       ELSE LET valid == {p \in DOMAIN b : b[p] * num_players <= total_amount}
            IN [total_bid |-> total_bid,
                payouts |-> [p \in valid |-> total_amount \div num_players],
                valid_players |-> valid,
                exceeded_limit |-> TRUE]

\* calculate_payouts paying every valid player the whole treasure
calculate_payouts_whole(b, total_amount) ==
    LET total_bid == SumOver(b, DOMAIN b)
        num_players == Cardinality(DOMAIN b)
    IN IF total_bid <= total_amount
       THEN [total_bid |-> total_bid,
             payouts |-> b,
             valid_players |-> DOMAIN b,
             exceeded_limit |-> FALSE]
       ELSE LET valid == {p \in DOMAIN b : b[p] * num_players <= total_amount}
            IN [total_bid |-> total_bid,
                payouts |-> [p \in valid |-> total_amount],
                valid_players |-> valid,
                exceeded_limit |-> TRUE]

\* TreasureChest.calculate_payouts.  fair_share = total_amount / num_players is a
\* float; for integer bids `bid <= fair_share` is `bid * num_players <= total_amount`,
\* and int(total_amount / len(valid_players)) is the floor of the quotient.
calculate_payouts(b, total_amount) ==
    LET total_bid == SumOver(b, DOMAIN b)
        num_players == Cardinality(DOMAIN b)
    IN IF total_bid <= total_amount
       THEN [total_bid |-> total_bid,
             payouts |-> b,
             valid_players |-> DOMAIN b,
             exceeded_limit |-> FALSE]
       ELSE LET valid == {p \in DOMAIN b : b[p] * num_players <= total_amount}
            IN [total_bid |-> total_bid,
                payouts |-> [p \in valid |-> total_amount \div Cardinality(valid)],
                valid_players |-> valid,
                exceeded_limit |-> TRUE]

\* TreasureChest.validate_bid
validate_bid(bid, total_amount) == 0 <= bid /\ bid <= total_amount

(* -------------------------- core/game_state.py ------------------------- *)

\* len(self.players)
RosterLen(pl) == SumOver(pl, DOMAIN pl)

\* the distinct ids in self.players
Roster(pl) == {c \in DOMAIN pl : pl[c] > 0}

\* GameState.calculate_round_results: the results dict it returns
round_results(pl, b, treasure_amount) ==
    LET ints == [p \in DOMAIN b |-> IntOf(b[p])]
        total_bids == SumOver(ints, DOMAIN b)
    IN IF total_bids = 0
       THEN [p \in Roster(pl) |->
                [name |-> p,
                 bid |-> IF p \in DOMAIN b THEN b[p] ELSE NumPayload(0),
                 share |-> treasure_amount \div RosterLen(pl)]]
       ELSE [p \in DOMAIN b |->
                [name |-> p,
                 bid |-> b[p],
                 share |-> (ints[p] * treasure_amount) \div total_bids]]

\* GameState.calculate_round_results: self.scores after the call
round_scores(sc, b, treasure_amount) ==
    LET ints == [p \in DOMAIN b |-> IntOf(b[p])]
        total_bids == SumOver(ints, DOMAIN b)
    IN IF total_bids = 0
       THEN sc
       ELSE [p \in DOMAIN sc |->
                IF p \in DOMAIN b
                THEN sc[p] + (ints[p] * treasure_amount) \div total_bids
                ELSE sc[p]]

\* GameState.is_game_over
is_game_over == current_round >= max_rounds

\* GameState.all_bids_placed
all_bids_placed == Cardinality(DOMAIN bids) = RosterLen(players)

\* GameState.start_round raises ValueError unless this holds
CanStartRound(pl) == RosterLen(pl) > 0 /\ RosterLen(pl) >= min_players

\* place_bid without its `player_id in self.bids` test
place_bid_error_overwrite(active, pl, b, player_id) ==
    IF ~active THEN "Cannot bid - round not active"
    ELSE IF pl[player_id] = 0 THEN "Unknown player"
    ELSE "none"

\* place_bid without its `not self.round_active` test
place_bid_error_inactive(active, pl, b, player_id) ==
    IF pl[player_id] = 0 THEN "Unknown player"
    ELSE IF player_id \in DOMAIN b THEN "already bid this round"
    ELSE "none"

\* GameState.place_bid: the ValueError it raises, or "none"
place_bid_error(active, pl, b, player_id) ==
    IF ~active THEN "Cannot bid - round not active"
    ELSE IF pl[player_id] = 0 THEN "Unknown player"
    ELSE IF player_id \in DOMAIN b THEN "already bid this round"
    ELSE "none"

(* ------------------------------ messages ------------------------------ *)

\* a message written to connection `to`; player_id 0 is 'server'
Msg(type, to, player_id, round_num, results, error) ==
    [type |-> type, to |-> to, player_id |-> player_id, round_num |-> round_num,
     results |-> results, error |-> error]

JoinMessage(to, client_id) == Msg("JOIN", to, client_id, 0, EmptyDict, "")
StartRoundMessage(to, round_num) == Msg("START_ROUND", to, 0, round_num, EmptyDict, "")
EndRoundMessage(to, round_num, results) == Msg("END_ROUND", to, 0, round_num, results, "")
GameOverMessage(to, final_scores) == Msg("GAME_OVER", to, 0, 0, final_scores, "")
ErrorMessage(to, error) == Msg("ERROR", to, 0, 0, EmptyDict, error)

\* GameServer.broadcast_message: one write per entry of self.clients
broadcast_message(cl, type, round_num, results) ==
    {Msg(type, to, 0, round_num, results, "") : to \in cl}

\* the latest round message each connection has been written, after the
\* messages msgs of one step
Hear(h, msgs) ==
    [c \in DOMAIN h |->
        IF \E m \in msgs : m.to = c /\ m.type = "START_ROUND" THEN "START_ROUND"
        ELSE IF \E m \in msgs : m.to = c /\ m.type = "END_ROUND" THEN "END_ROUND"
        ELSE h[c]]

(* ------------------------- network/client.py -------------------------- *)

\* GameClient.handle_message, JOIN branch: the peers whose public key client c
\* stores in self.player_keys when it handles the messages msgs
handle_message_keys(msgs, c) ==
    {m.player_id : m \in {x \in msgs : x.type = "JOIN" /\ x.to = c}}

(* ------------------------ network/protocol.py ------------------------- *)

\* MessageType
MessageType ==
    {"JOIN", "BID", "START_ROUND", "END_ROUND", "GAME_OVER", "ERROR", "SESSION_KEY"}

\* Field values are tokens: 0 stands for the empty value of the field's type
\* ('' or {} or []), 1..NumTokens for distinct non-empty values.
Tokens == 0..NumTokens
\* round numbers a message carries
RoundNums == 1..(max_rounds + 1)

\* messages.Message: the dataclass fields.  player_id "None" and round_num -1
\* stand for None; data is the dict, field name -> token.
Message(type, player_id, data, round_num) ==
    [type |-> type, player_id |-> player_id, data |-> data, round_num |-> round_num]

\* messages.JoinMessage.__init__
NewJoinMessage(player_id, player_name, public_key) ==
    Message("JOIN", player_id, [player_name |-> player_name, public_key |-> public_key], -1)

\* messages.BidMessage.__init__
NewBidMessage(encrypted_bids) ==
    Message("BID", "None", [encrypted_bids |-> encrypted_bids], -1)

\* messages.StartRoundMessage.__init__: the round is kept in round_num only
NewStartRoundMessage(round_num) ==
    Message("START_ROUND", "server", EmptyDict, round_num)

\* messages.EndRoundMessage.__init__
NewEndRoundMessage(round_num, results) ==
    Message("END_ROUND", "server", [results |-> results], round_num)

\* messages.GameOverMessage.__init__
NewGameOverMessage(final_scores) ==
    Message("GAME_OVER", "server", [final_scores |-> final_scores], -1)

\* messages.ErrorMessage.__init__
NewErrorMessage(error_msg) ==
    Message("ERROR", "server", [error |-> error_msg], -1)

\* messages.SessionKeyMessage.__init__
NewSessionKeyMessage(target_id, encrypted_key) ==
    Message("SESSION_KEY", "None",
            [target_id |-> target_id, encrypted_key |-> encrypted_key], -1)

\* no Message
NoMessage == Message("NONE", "None", EmptyDict, -1)

\* A line of text as json.loads sees it.  shape: "empty" (only whitespace),
\* "garbage" (not JSON), "array" (JSON, but not an object), "object".  For an
\* object: type is the value of 'type' ("absent" without one), player_id the
\* value of 'player_id' ("None" for null or absent), data_kind says whether
\* 'data' is a dict, another JSON value ("int") or absent, data is the dict.
Line(shape, type, player_id, data_kind, data) ==
    [shape |-> shape, type |-> type, player_id |-> player_id,
     data_kind |-> data_kind, data |-> data]

\* no line
NoLine == Line("none", "absent", "None", "absent", EmptyDict)

\* Protocol.serialize: json.dumps of type, player_id and data; round_num is
\* not written
serialize(message) ==
    Line("object", message.type, message.player_id, "dict", message.data)

\* dict.get(key, default)
Get(data, key, default) == IF key \in DOMAIN data THEN data[key] ELSE default

\* deserialize returned message
Decoded(message) == [ok |-> TRUE, raised |-> "none", msg |-> message]
\* deserialize raised ValueError("Error deserializing message: ...")
DecodeError == [ok |-> FALSE, raised |-> "ValueError", msg |-> NoMessage]
\* deserialize has not been called
NotDecoded == [ok |-> FALSE, raised |-> "none", msg |-> NoMessage]

\* Protocol.deserialize.  Every exception inside becomes ValueError: the empty
\* line, json.loads on text that is not JSON, parsed['type'] on a value that is
\* not an object or has no 'type', MessageType[...] on an unknown name,
\* data.get on a 'data' that is not a dict, and GameOverMessage called with two
\* positional arguments where __init__ takes one.
deserialize(line) ==
    IF line.shape # "object" THEN DecodeError
    ELSE IF line.type \notin MessageType THEN DecodeError
    ELSE IF line.data_kind = "int" THEN DecodeError
    ELSE LET player_id == line.player_id
             data == IF line.data_kind = "absent" THEN EmptyDict ELSE line.data
         IN CASE line.type = "JOIN" ->
                   Decoded(NewJoinMessage(player_id, Get(data, "player_name", 0),
                                          Get(data, "public_key", 0)))
              [] line.type = "BID" ->
                   Decoded(NewBidMessage(Get(data, "encrypted_bids", 0)))
              [] line.type = "START_ROUND" ->
                   Decoded(NewStartRoundMessage(Get(data, "round", 1)))
              [] line.type = "END_ROUND" ->
                   Decoded(NewEndRoundMessage(Get(data, "round", 1),
                                              Get(data, "results", 0)))
              [] line.type = "GAME_OVER" -> DecodeError
              [] line.type = "ERROR" ->
                   Decoded(NewErrorMessage(Get(data, "error", 0)))
              [] line.type = "SESSION_KEY" ->
                   Decoded(NewSessionKeyMessage(Get(data, "target_id", 0),
                                                Get(data, "encrypted_key", 0)))

\* Protocol.validate_message on a Message object (a dataclass instance is
\* truthy, its type is a MessageType and its data a dict): the text returned,
\* "None" for None
validate_message(message) ==
    IF message.player_id \in {"None", ""} THEN "Missing player ID" ELSE "None"

(* ------------------------------- Init --------------------------------- *)

\* the read loop of handle_client has met no line it could not dispatch
NoLog == [line |-> NoLine, result |-> NotDecoded]

ServerInit ==
    /\ clients = {}
    /\ players = [c \in Conns |-> 0]
    /\ scores = EmptyDict
    /\ bids = EmptyDict
    /\ current_round = 0
    /\ round_active = FALSE
    /\ sleeping = {}
    /\ closing = {}
    /\ broken = {}
    /\ rounds_closed = 0
    /\ out = {}
    /\ bidder = 0
    /\ line_log = NoLog
    /\ heard = [c \in Conns |-> "none"]

PayoutIdle ==
    /\ chest_bids = EmptyDict
    /\ chest_result = NoResult
    /\ round_result = EmptyDict

\* no GameClient has sent a bid
NoBidMessage == [type |-> "NONE", player_id |-> "None", data |-> EmptyDict]

\* send_bid has returned without sending ("Cannot bid now - round not active")
UnsentBid == [type |-> "UNSENT", player_id |-> "None", data |-> EmptyDict]

CryptoIdle ==
    /\ bid_input = [player_id |-> "None", amount |-> 0, player_keys |-> {},
                    round_active |-> FALSE]
    /\ session_peers = {}
    /\ bid_msg = NoBidMessage
    /\ bid_value = EmptyDict

\* a call that has not been made
NoCall == [raised |-> "uncalled", data |-> <<>>]

\* GameState.__init__: no decrypted copy recorded
VerifyIdle ==
    /\ decrypted_bids = EmptyDict
    /\ raised = "none"
    /\ end_result = NoCall

\* compute_total_bid has not been called
NoTotal == [manager |-> 0, result |-> NoCall]

\* no SMPCProtocol or BidManager has been built
SmpcIdle ==
    /\ smpc_n = 0
    /\ smpc_bids = EmptyDict
    /\ shares = EmptyDict
    /\ current_shares = EmptyDict
    /\ total = NoTotal
    /\ smpc_call = [op |-> "none"]
    /\ smpc_shares = NoCall
    /\ smpc_secret = NoCall

\* KeyManager has been given nothing yet
KeyIdle ==
    /\ key_case = [op |-> "none"]
    /\ key_stage = "idle"
    /\ sealed = NoCall
    /\ opened = NoCall

\* Protocol has been given nothing yet
CodecIdle ==
    /\ proto_msg = NoMessage
    /\ proto_line = NoLine
    /\ proto_result = NotDecoded
    /\ proto_valid = "unchecked"
    /\ KeyIdle

Init == ServerInit /\ PayoutIdle /\ CryptoIdle /\ VerifyIdle /\ CodecIdle /\ SmpcIdle

(* ------------------------- network/server.py -------------------------- *)

\* connections whose handle_client has finished: every join enters both
\* self.clients and GameState.players, and only the finally block of
\* handle_client takes a connection out of self.clients again
Gone == Roster(players) \ clients

\* connections whose task is suspended in end_round's broadcast
ClosingConns == {x.conn : x \in closing}

\* GameServer.handle_join, with GameState.add_player and GameState.start_round
handle_join(c) ==
    /\ c \notin Gone
    /\ c \notin sleeping \cup ClosingConns \cup broken
    /\ bidder' = 0
    /\ line_log' = NoLog
    \* len(GameState.players) only ever grows in the server: a run is followed
    \* through as many Joins as it has connections
    /\ RosterLen(players) < Cardinality(DOMAIN players)
    /\ LET clients1 == clients \cup {c}
           players1 == [players EXCEPT ![c] = @ + 1]
           \* add_player starts the first round itself
           auto == RosterLen(players1) >= min_players /\ current_round = 0
           round1 == IF auto THEN current_round + 1 ELSE current_round
           active1 == auto \/ round_active
           bids1 == IF auto THEN EmptyDict ELSE bids
           joins == {JoinMessage(o, c) : o \in clients1 \ {c}}
           game == Cardinality(clients1) = StartGameClients
       IN /\ players' = players1
          /\ scores' = Put(scores, c, 0)
          /\ IF (clients1 \ {c}) \cap broken # {}
             THEN \* send_message raises in the fan-out loop, which ends there:
                  \* the writers before the failing one in the dict's order
                  \* (not tracked: any set of the others) have been written
                  \* to, and the except-branch deletes the joiner
                  /\ clients' = clients1 \ {c}
                  /\ current_round' = round1
                  /\ round_active' = active1
                  /\ bids' = bids1
                  /\ \E sent \in SUBSET ((clients1 \ {c}) \ broken) :
                        out' = {JoinMessage(o, c) : o \in sent}
             ELSE IF ~game
             THEN /\ clients' = clients1
                  /\ current_round' = round1
                  /\ round_active' = active1
                  /\ bids' = bids1
                  /\ out' = joins
             ELSE IF CanStartRound(players1)
             THEN /\ clients' = clients1
                  /\ current_round' = round1 + 1
                  /\ round_active' = TRUE
                  /\ bids' = EmptyDict
                  /\ out' = joins \cup broadcast_message(clients1, "START_ROUND", 1, EmptyDict)
             ELSE \* start_round raised: except-branch deletes the joiner again
                  /\ clients' = clients1 \ {c}
                  /\ current_round' = round1
                  /\ round_active' = active1
                  /\ bids' = bids1
                  /\ out' = joins
    /\ UNCHANGED <<sleeping, closing, broken, rounds_closed>>
    /\ heard' = Hear(heard, out')
    /\ UNCHANGED payoutVars
    /\ UNCHANGED cryptoVars
    /\ UNCHANGED verifyVars
    /\ UNCHANGED codecVars
    /\ UNCHANGED smpcVars

\* GameServer.handle_bid, with GameState.place_bid and, when the bid count
\* reaches the connection count, GameServer.end_round up to its sleep
handle_bid(c, p) ==
    /\ c \notin Gone
    /\ c \notin sleeping \cup ClosingConns \cup broken
    /\ bidder' = IF c \in clients THEN c ELSE 0
    /\ line_log' = NoLog
    /\ LET err == place_bid_error(round_active, players, bids, c)
           bids1 == Put(bids, c, p)
           complete == Cardinality(DOMAIN bids1) = Cardinality(clients)
           results == round_results(players, bids1, TREASURE_AMOUNT)
       IN IF c \notin clients
          THEN \* self.player_names[client_id] and self.clients[client_id] raise KeyError
               /\ out' = {}
               /\ UNCHANGED <<bids, scores, round_active, sleeping, rounds_closed>>
          ELSE IF ~Truthy(p)
          THEN /\ out' = {ErrorMessage(c, "No encrypted bids received")}
               /\ UNCHANGED <<bids, scores, round_active, sleeping, rounds_closed>>
          ELSE IF err # "none"
          THEN /\ out' = {ErrorMessage(c, err)}
               /\ UNCHANGED <<bids, scores, round_active, sleeping, rounds_closed>>
          ELSE IF ~complete
          THEN /\ bids' = bids1
               /\ out' = {}
               /\ UNCHANGED <<scores, round_active, sleeping, rounds_closed>>
          ELSE IF \E q \in DOMAIN bids1 : ~IntConvertible(bids1[q])
          THEN \* int(bid) raises TypeError inside end_round, which only logs it
               /\ bids' = bids1
               /\ out' = {}
               /\ UNCHANGED <<scores, round_active, sleeping, rounds_closed>>
          ELSE \* results, broadcast, reset_round, then asyncio.sleep(2)
               /\ rounds_closed < MaxCloses
               /\ scores' = round_scores(scores, bids1, TREASURE_AMOUNT)
               /\ round_active' = FALSE
               /\ bids' = EmptyDict
               /\ out' = broadcast_message(clients \ broken, "END_ROUND", current_round, results)
               /\ sleeping' = sleeping \cup {c}
               /\ rounds_closed' = rounds_closed + 1
    /\ UNCHANGED <<clients, players, current_round, closing, broken>>
    /\ heard' = Hear(heard, out')
    /\ UNCHANGED payoutVars
    /\ UNCHANGED cryptoVars
    /\ UNCHANGED verifyVars
    /\ UNCHANGED codecVars
    /\ UNCHANGED smpcVars

\* GameServer.end_round after its sleep: GameServer.start_round
start_round(c) ==
    /\ c \in sleeping
    /\ bidder' = 0
    /\ line_log' = NoLog
    /\ sleeping' = sleeping \ {c}
    /\ IF CanStartRound(players)
       THEN /\ current_round' = current_round + 1
            /\ round_active' = TRUE
            /\ bids' = EmptyDict
            /\ out' = broadcast_message(clients \ broken, "START_ROUND", current_round + 1,
                                        EmptyDict)
       ELSE /\ out' = {}
            /\ UNCHANGED <<current_round, round_active, bids>>
    /\ UNCHANGED <<clients, players, scores, closing, broken, rounds_closed>>
    /\ heard' = Hear(heard, out')
    /\ UNCHANGED payoutVars
    /\ UNCHANGED cryptoVars
    /\ UNCHANGED verifyVars
    /\ UNCHANGED codecVars
    /\ UNCHANGED smpcVars

\* GameServer.handle_client: readline returns b'' and the finally block runs.
\* For a connection that never joined the block changes nothing, and the
\* connection is then one that never sends: it is left out.
disconnect(c) ==
    /\ c \in clients
    /\ c \notin sleeping \cup ClosingConns
    /\ bidder' = 0
    /\ line_log' = NoLog
    /\ clients' = clients \ {c}
    /\ broken' = broken \ {c}
    /\ out' = {}
    /\ UNCHANGED <<players, scores, bids, current_round, round_active,
                   sleeping, closing, rounds_closed>>
    /\ heard' = [heard EXCEPT ![c] = "none"]
    /\ UNCHANGED payoutVars
    /\ UNCHANGED cryptoVars
    /\ UNCHANGED verifyVars
    /\ UNCHANGED codecVars
    /\ UNCHANGED smpcVars

Next ==
    \/ \E c \in Conns : handle_join(c)
    \/ \E c \in Conns : \E p \in Payloads : handle_bid(c, p)
    \/ \E c \in Conns : start_round(c)
    \/ \E c \in Conns : disconnect(c)

Spec == Init /\ [][Next]_vars

\* the event loop resumes a task whose sleep has elapsed
FairSpec == Spec /\ \A c \in Conns : WF_vars(start_round(c))

(* ---------------------------- DrainSpec ------------------------------- *)

\* GameServer.handle_bid whose end_round is suspended inside broadcast_message:
\* `await writer.drain()` (send_message) suspends the task when the transport
\* it wrote to is paused or closing.  The results are computed and the
\* END_ROUND messages written (the suspension is taken at the last write), but
\* reset_round has not run: the bids are still recorded and the round is active.
handle_bid_suspended(c, p) ==
    /\ c \in clients
    /\ c \notin sleeping \cup ClosingConns \cup broken
    /\ Truthy(p)
    /\ place_bid_error(round_active, players, bids, c) = "none"
    /\ LET bids1 == Put(bids, c, p)
       IN /\ Cardinality(DOMAIN bids1) = Cardinality(clients)
          /\ \A q \in DOMAIN bids1 : IntConvertible(bids1[q])
          /\ rounds_closed < MaxCloses
          /\ bids' = bids1
          /\ scores' = round_scores(scores, bids1, TREASURE_AMOUNT)
          /\ out' = broadcast_message(clients \ broken, "END_ROUND", current_round,
                                     round_results(players, bids1, TREASURE_AMOUNT))
    /\ bidder' = c
    /\ line_log' = NoLog
    /\ closing' = closing \cup {[conn |-> c, size |-> Cardinality(clients)]}
    /\ rounds_closed' = rounds_closed + 1
    /\ UNCHANGED <<clients, players, current_round, round_active, sleeping, broken>>
    /\ heard' = Hear(heard, out')
    /\ UNCHANGED payoutVars
    /\ UNCHANGED cryptoVars
    /\ UNCHANGED verifyVars
    /\ UNCHANGED codecVars
    /\ UNCHANGED smpcVars

\* GameServer.end_round resumed after the broadcast.  The `for` over
\* self.clients.items() asks its iterator for the next item: when a join or a
\* disconnect has changed the size of the dict meanwhile it raises
\* RuntimeError, which end_round's except only logs, so reset_round and
\* start_round are skipped; otherwise reset_round, then the asyncio.sleep(2).
end_round_resume(c) ==
    /\ c \in ClosingConns
    /\ bidder' = 0
    /\ line_log' = NoLog
    /\ closing' = {x \in closing : x.conn # c}
    /\ IF \E x \in closing : x.conn = c /\ x.size = Cardinality(clients)
       THEN /\ bids' = EmptyDict
            /\ round_active' = FALSE
            /\ sleeping' = sleeping \cup {c}
       ELSE UNCHANGED <<bids, round_active, sleeping>>
    /\ out' = {}
    /\ UNCHANGED <<clients, players, scores, current_round, broken, rounds_closed>>
    /\ heard' = Hear(heard, out')
    /\ UNCHANGED payoutVars
    /\ UNCHANGED cryptoVars
    /\ UNCHANGED verifyVars
    /\ UNCHANGED codecVars
    /\ UNCHANGED smpcVars

DrainNext ==
    \/ Next
    \/ \E c \in Conns : \E p \in Payloads : handle_bid_suspended(c, p)
    \/ \E c \in Conns : end_round_resume(c)

DrainSpec == Init /\ [][DrainNext]_vars

(* ----------------------------- FailSpec ------------------------------ *)

\* The transport of a joined connection is lost (the peer is gone, or the
\* finally block of its handle_client has called writer.close() and waits in
\* wait_closed()) while the connection is still in self.clients: from now on
\* `await writer.drain()` on its writer raises ConnectionResetError.
connection_lost(c) ==
    /\ c \in clients \ broken
    /\ broken' = broken \cup {c}
    /\ bidder' = 0
    /\ line_log' = NoLog
    /\ out' = {}
    /\ UNCHANGED <<clients, players, scores, bids, current_round, round_active,
                   sleeping, closing, rounds_closed>>
    /\ heard' = Hear(heard, out')
    /\ UNCHANGED payoutVars
    /\ UNCHANGED cryptoVars
    /\ UNCHANGED verifyVars
    /\ UNCHANGED codecVars
    /\ UNCHANGED smpcVars

FailNext ==
    \/ Next
    \/ \E c \in Conns : connection_lost(c)

FailSpec == Init /\ [][FailNext]_vars

(* ---------------------------- WideSpec -------------------------------- *)

\* one connection more than Spec has, so that a participant can leave a round
\* whose roster stays at min_players
WideConns == 1..(NumConns + 1)

WideInit ==
    /\ clients = {}
    /\ players = [c \in WideConns |-> 0]
    /\ scores = EmptyDict
    /\ bids = EmptyDict
    /\ current_round = 0
    /\ round_active = FALSE
    /\ sleeping = {}
    /\ closing = {}
    /\ broken = {}
    /\ rounds_closed = 0
    /\ out = {}
    /\ bidder = 0
    /\ line_log = NoLog
    /\ heard = [c \in WideConns |-> "none"]
    /\ PayoutIdle
    /\ CryptoIdle
    /\ VerifyIdle
    /\ SmpcIdle
    /\ CodecIdle

\* the handlers of Spec; every connection sends Join once, as GameClient.connect does
WideNext ==
    \/ \E c \in WideConns : players[c] = 0 /\ handle_join(c)
    \/ \E c \in WideConns : \E p \in Payloads : handle_bid(c, p)
    \/ \E c \in WideConns : start_round(c)
    \/ \E c \in WideConns : disconnect(c)

WideSpec ==
    /\ WideInit
    /\ [][WideNext]_vars
    /\ \A c \in WideConns : WF_vars(start_round(c))

(* ---------------------------- CryptoSpec ------------------------------ *)

\* the amounts send_bid is asked to bid: BidValues and two outside [0, 100]
BidAmounts == BidValues \cup {-5, 150}

\* GameClient.player_id values, f"p{uuid.uuid4().hex[:3]}"
PlayerIds == {"p1a", "p2b", "p3c"}

\* str(amount).encode(): the decimal text of the bid
BidText(amount) == [kind |-> "digits", val |-> amount]

\* bytes that are not the text of a number
Garbage == [kind |-> "garbage", val |-> 0]

\* the PEM public key of a participant, and the AES session key a peer sent
PublicKey(owner) == [scheme |-> "rsa-oaep", owner |-> owner]
SessionKey(peer) == [scheme |-> "aes-cbc", owner |-> peer]

\* base64.b64encode / base64.b64decode
b64encode(x) == [b64 |-> x]
b64decode(y) == y.b64

\* KeyManager.encrypt: RSA-OAEP under the public key, then base64
encrypt(data, public_key) == b64encode([key |-> public_key, plain |-> data])

\* GameClient.handle_bid, its call of key_manager.decrypt_with_session_key on
\* the base64-decoded entry: bytes that were not encrypted under the session
\* key come out as garbage
handle_bid_decrypt(session_key, encrypted_data) ==
    IF encrypted_data.key = session_key THEN encrypted_data.plain ELSE Garbage

\* GameClient.send_bid: data['encrypted_bids'] of the BidMessage it builds.
\* BidMessage.__init__ takes the dict it is given as encrypted_bids, and
\* send_bid gives it {'encrypted_bids': ..., 'player_id': ...}.
send_bid(player_id, amount, player_keys) ==
    LET encrypted_bids ==
            [r \in player_keys \ {player_id} |-> encrypt(BidText(amount), PublicKey(r))]
    IN [x \in {"encrypted_bids", "player_id"} |->
           IF x = "encrypted_bids" THEN [kind |-> "dict", val |-> encrypted_bids]
           ELSE [kind |-> "str", val |-> player_id]]

\* Protocol.deserialize(Protocol.serialize(BidMessage(d))): player_id is None
BidMessage(encrypted_bids) ==
    [type |-> "BID", player_id |-> "None", data |-> encrypted_bids]

\* GameClient.handle_bid: the bid_value it decrypts, or -1 when it returns or
\* fails before it has one
client_handle_bid(player_id, message, session_keys) ==
    LET encrypted_bids == message.data
    IN IF DOMAIN encrypted_bids = {} THEN -1
       ELSE IF player_id \notin DOMAIN encrypted_bids THEN -1
       ELSE IF message.player_id \notin session_keys THEN -1
       ELSE LET decrypted_data ==
                    handle_bid_decrypt(SessionKey(message.player_id),
                                       b64decode(encrypted_bids[player_id]))
            IN IF decrypted_data.kind # "digits" THEN -1
               ELSE IF decrypted_data.val < 0 THEN -1
               ELSE decrypted_data.val

CryptoInit ==
    /\ ServerInit
    /\ PayoutIdle
    /\ bid_input \in [player_id : PlayerIds, amount : BidAmounts,
                       player_keys : SUBSET PlayerIds, round_active : BOOLEAN]
    /\ session_peers \in SUBSET PlayerIds
    /\ bid_msg = NoBidMessage
    /\ bid_value = EmptyDict
    /\ VerifyIdle
    /\ SmpcIdle
    /\ CodecIdle

\* the originator runs send_bid (the amount typed is a number, so int(amount)
\* succeeds) and, unless send_bid returns first, the message reaches its peers
client_send ==
    /\ bid_msg.type = "NONE"
    /\ bid_msg' = IF ~bid_input.round_active
                  THEN UnsentBid
                  ELSE BidMessage(send_bid(bid_input.player_id, bid_input.amount,
                                           bid_input.player_keys))
    /\ UNCHANGED <<bid_input, session_peers, bid_value>>
    /\ UNCHANGED serverVars
    /\ UNCHANGED payoutVars
    /\ UNCHANGED verifyVars
    /\ UNCHANGED codecVars
    /\ UNCHANGED smpcVars

\* recipient r runs handle_bid on the message
client_receive(r) ==
    /\ bid_msg.type = "BID"
    /\ r # bid_input.player_id
    /\ r \notin DOMAIN bid_value
    /\ bid_value' = Put(bid_value, r, client_handle_bid(r, bid_msg, session_peers))
    /\ UNCHANGED <<bid_input, session_peers, bid_msg>>
    /\ UNCHANGED serverVars
    /\ UNCHANGED payoutVars
    /\ UNCHANGED verifyVars
    /\ UNCHANGED codecVars
    /\ UNCHANGED smpcVars

CryptoNext == client_send \/ \E r \in PlayerIds : client_receive(r)

CryptoSpec == CryptoInit /\ [][CryptoNext]_vars

(* ---------------------------- VerifySpec ------------------------------ *)

Originators == 1..NumOriginators

\* the bid_value arguments process_decrypted_bid is called with
DecryptedValues == {NumPayload(-1), NumPayload(10), NumPayload(150), StrPayload(10)}

\* GameState.verify_bid_consistency: what it raises and the value it returns
\* (-1 for None)
verify_bid_consistency(db, player_id) ==
    IF player_id \notin DOMAIN db
    THEN [raised |-> "none", value |-> -1]
    ELSE LET bid_values == {db[player_id][t] : t \in DOMAIN db[player_id]}
         IN IF bid_values = {}
            THEN [raised |-> "BidVerificationError", value |-> -1]
            ELSE IF Cardinality(bid_values) > 1
            THEN [raised |-> "BidVerificationError", value |-> -1]
            ELSE LET bid_value_ == CHOOSE v \in bid_values : TRUE
                 IN IF bid_value_ < 0
                    THEN [raised |-> "BidVerificationError", value |-> -1]
                    ELSE [raised |-> "none", value |-> bid_value_]

\* GameState.add_player called on the GameState itself, with the start_round it
\* makes when the roster reaches min_players
add_player(player_id) ==
    /\ RosterLen(players) < Cardinality(DOMAIN players)
    /\ LET players1 == [players EXCEPT ![player_id] = @ + 1]
       IN /\ players' = players1
          /\ scores' = Put(scores, player_id, 0)
          /\ IF RosterLen(players1) >= min_players /\ current_round = 0
             THEN /\ current_round' = current_round + 1
                  /\ round_active' = TRUE
                  /\ bids' = EmptyDict
                  /\ decrypted_bids' = EmptyDict
             ELSE UNCHANGED <<current_round, round_active, bids, decrypted_bids>>
    /\ raised' = "none"
    /\ UNCHANGED <<clients, sleeping, closing, broken, rounds_closed, out, bidder, line_log, heard>>
    /\ end_result' = NoCall
    /\ UNCHANGED payoutVars
    /\ UNCHANGED cryptoVars
    /\ UNCHANGED codecVars
    /\ UNCHANGED smpcVars

\* GameState.start_round called on the GameState itself
state_start_round ==
    /\ current_round <= MaxCloses
    /\ IF CanStartRound(players)
       THEN /\ current_round' = current_round + 1
            /\ round_active' = TRUE
            /\ bids' = EmptyDict
            /\ decrypted_bids' = EmptyDict
            /\ raised' = "none"
       ELSE /\ raised' = "ValueError"
            /\ UNCHANGED <<current_round, round_active, bids, decrypted_bids>>
    /\ UNCHANGED <<clients, players, scores, sleeping, closing, broken, rounds_closed, out, bidder, line_log, heard>>
    /\ end_result' = NoCall
    /\ UNCHANGED payoutVars
    /\ UNCHANGED cryptoVars
    /\ UNCHANGED codecVars
    /\ UNCHANGED smpcVars

\* GameState.process_decrypted_bid
process_decrypted_bid(from_player, for_player, bid_value_) ==
    /\ IF ~round_active
       THEN raised' = "ValueError" /\ UNCHANGED <<decrypted_bids, bids>>
       ELSE IF players[from_player] = 0 \/ players[for_player] = 0
       THEN raised' = "ValueError" /\ UNCHANGED <<decrypted_bids, bids>>
       ELSE IF bid_value_.kind # "num" \/ bid_value_.val < 0
       THEN raised' = "ValueError" /\ UNCHANGED <<decrypted_bids, bids>>
       ELSE LET copies == IF from_player \in DOMAIN decrypted_bids
                          THEN decrypted_bids[from_player] ELSE EmptyDict
                db == Put(decrypted_bids, from_player, Put(copies, for_player, bid_value_.val))
                verified == verify_bid_consistency(db, from_player)
            IN /\ decrypted_bids' = db
               /\ IF Cardinality(DOMAIN db[from_player]) = RosterLen(players) - 1
                  THEN /\ raised' = verified.raised
                       /\ bids' = IF verified.raised = "none" /\ verified.value >= 0
                                  THEN Put(bids, from_player, NumPayload(verified.value))
                                  ELSE bids
                  ELSE /\ raised' = "none"
                       /\ UNCHANGED bids
    /\ UNCHANGED <<clients, players, scores, current_round, round_active,
                   sleeping, closing, broken, rounds_closed, out, bidder, line_log, heard>>
    /\ end_result' = NoCall
    /\ UNCHANGED payoutVars
    /\ UNCHANGED cryptoVars
    /\ UNCHANGED codecVars
    /\ UNCHANGED smpcVars

VerifyNext ==
    \/ \E c \in Conns : add_player(c)
    \/ state_start_round
    \/ \E f \in Originators : \E t \in Conns : \E v \in DecryptedValues :
           process_decrypted_bid(f, t, v)

VerifySpec == Init /\ [][VerifyNext]_vars

(* --------------------------- PayoutSpec ------------------------------- *)

BidMaps == UNION {[S -> BidValues] : S \in SUBSET Pirates}

\* the roster and bids of a GameState whose players are exactly the bidders
ChestRoster == [c \in Pirates |-> IF c \in DOMAIN chest_bids THEN 1 ELSE 0]
ChestPayloads == [c \in DOMAIN chest_bids |-> NumPayload(chest_bids[c])]

PayoutInit ==
    /\ ServerInit
    /\ chest_bids \in BidMaps
    /\ chest_result = NoResult
    /\ round_result = EmptyDict
    /\ CryptoIdle
    /\ VerifyIdle
    /\ SmpcIdle
    /\ CodecIdle

\* TreasureChest(100).calculate_payouts(chest_bids)
chest_calculate ==
    /\ chest_result = NoResult
    /\ chest_result' = calculate_payouts(chest_bids, TREASURE_AMOUNT)
    /\ UNCHANGED <<chest_bids, round_result>>
    /\ UNCHANGED serverVars
    /\ UNCHANGED cryptoVars
    /\ UNCHANGED verifyVars
    /\ UNCHANGED codecVars
    /\ UNCHANGED smpcVars

\* GameState.calculate_round_results() on the same bids, placed by players that
\* add_player registered with score 0; with no player at all
\* `self.treasure_amount // len(self.players)` raises ZeroDivisionError
round_calculate ==
    /\ round_result = EmptyDict
    /\ DOMAIN chest_bids # {}
    /\ round_result' = round_results(ChestRoster, ChestPayloads, TREASURE_AMOUNT)
    /\ scores' = round_scores([c \in DOMAIN chest_bids |-> 0], ChestPayloads,
                              TREASURE_AMOUNT)
    /\ UNCHANGED <<chest_bids, chest_result>>
    /\ UNCHANGED <<clients, players, bids, current_round, round_active,
                   sleeping, closing, broken, rounds_closed, out, bidder, line_log, heard>>
    /\ UNCHANGED cryptoVars
    /\ UNCHANGED verifyVars
    /\ UNCHANGED codecVars
    /\ UNCHANGED smpcVars

PayoutNext == chest_calculate \/ round_calculate

PayoutSpec == PayoutInit /\ [][PayoutNext]_vars

(* ---------------------------- ProtoSpec ------------------------------- *)
\* Protocol.serialize, Protocol.deserialize and Protocol.validate_message
\* applied to one message or to one line received from a peer.

\* the messages handed to serialize: every constructor of messages.py, and a
\* bare Message of type JOIN whose data is empty
ProtoMessages ==
    {NewJoinMessage(p, n, k) : p \in PlayerIds, n \in 1..NumTokens, k \in 1..NumTokens}
    \cup {NewBidMessage(e) : e \in Tokens}
    \cup {NewStartRoundMessage(r) : r \in RoundNums}
    \cup {NewEndRoundMessage(r, x) : r \in RoundNums, x \in Tokens}
    \cup {NewGameOverMessage(f) : f \in Tokens}
    \cup {NewErrorMessage(e) : e \in 1..NumTokens}
    \cup {NewSessionKeyMessage(t, 1) : t \in 1..NumTokens}
    \cup {Message("JOIN", p, EmptyDict, -1) : p \in PlayerIds}

\* the 'data' dicts of the lines a peer sends
RawData ==
    {EmptyDict, [player_name |-> 1], [public_key |-> 1],
     [player_name |-> 1, public_key |-> 1], [encrypted_bids |-> 1],
     [round |-> 2, results |-> 1], [error |-> 1]}

\* the lines a peer sends
RawLines ==
    {Line(sh, "absent", "None", "absent", EmptyDict) : sh \in {"empty", "garbage", "array"}}
    \cup {Line("object", t, p, "dict", d) :
            t \in MessageType \cup {"FOO", "absent"}, p \in {"None", "p1a"}, d \in RawData}
    \cup {Line("object", t, p, k, EmptyDict) :
            t \in MessageType \cup {"FOO", "absent"}, p \in {"None", "p1a"},
            k \in {"int", "absent"}}

ProtoInit ==
    /\ ServerInit
    /\ PayoutIdle
    /\ CryptoIdle
    /\ VerifyIdle
    /\ SmpcIdle
    /\ \/ proto_msg \in ProtoMessages /\ proto_line = NoLine
       \/ proto_msg = NoMessage /\ proto_line \in RawLines
    /\ proto_result = NotDecoded
    /\ proto_valid = "unchecked"
    /\ KeyIdle

\* Protocol.serialize(proto_msg)
proto_serialize ==
    /\ proto_msg # NoMessage
    /\ proto_line = NoLine
    /\ proto_line' = serialize(proto_msg)
    /\ UNCHANGED <<proto_msg, proto_result, proto_valid>>
    /\ UNCHANGED keyVars
    /\ UNCHANGED serverVars
    /\ UNCHANGED payoutVars
    /\ UNCHANGED cryptoVars
    /\ UNCHANGED verifyVars
    /\ UNCHANGED smpcVars

\* Protocol.deserialize(proto_line)
proto_deserialize ==
    /\ proto_line # NoLine
    /\ proto_result = NotDecoded
    /\ proto_result' = deserialize(proto_line)
    /\ UNCHANGED <<proto_msg, proto_line, proto_valid>>
    /\ UNCHANGED keyVars
    /\ UNCHANGED serverVars
    /\ UNCHANGED payoutVars
    /\ UNCHANGED cryptoVars
    /\ UNCHANGED verifyVars
    /\ UNCHANGED smpcVars

\* Protocol.validate_message on the message built by the caller, or on the one
\* deserialize returned
proto_validate ==
    /\ proto_valid = "unchecked"
    /\ proto_msg # NoMessage \/ proto_result.ok
    /\ proto_valid' = validate_message(IF proto_msg # NoMessage THEN proto_msg
                                       ELSE proto_result.msg)
    /\ UNCHANGED <<proto_msg, proto_line, proto_result>>
    /\ UNCHANGED keyVars
    /\ UNCHANGED serverVars
    /\ UNCHANGED payoutVars
    /\ UNCHANGED cryptoVars
    /\ UNCHANGED verifyVars
    /\ UNCHANGED smpcVars

ProtoNext == proto_serialize \/ proto_deserialize \/ proto_validate

ProtoSpec == ProtoInit /\ [][ProtoNext]_vars

(* ----------------------------- LineSpec ------------------------------- *)
\* Spec with the lines the read loop of GameServer.handle_client does not
\* dispatch to handle_join or handle_bid.

\* the lines a connection sends besides its Join and Bid messages
ServerLines ==
    {l \in RawLines :
        /\ l.player_id = "None"
        /\ l.data = EmptyDict
        /\ \/ l.shape # "object"
           \/ l.type \in {"FOO", "START_ROUND"} /\ l.data_kind = "dict"
           \/ l.type = "JOIN" /\ l.data_kind = "int"}

\* what the read loop keeps of the line: deserialize is not reached for a line
\* that is empty once stripped
ReadLine(line) ==
    [line |-> line,
     result |-> IF line.shape = "empty" THEN NotDecoded ELSE deserialize(line)]

\* a read loop that leaves the loop when deserialize raises: the finally block
\* closes the connection
handle_line_closing(c, line) ==
    /\ c \notin Gone
    /\ c \notin sleeping \cup ClosingConns \cup broken
    /\ ~(deserialize(line).ok /\ deserialize(line).msg.type \in {"JOIN", "BID"})
    /\ line_log' = ReadLine(line)
    /\ clients' = IF line.shape # "empty" /\ ~deserialize(line).ok
                  THEN clients \ {c} ELSE clients
    /\ out' = {}
    /\ bidder' = 0
    /\ UNCHANGED <<players, scores, bids, current_round, round_active,
                   sleeping, closing, broken, rounds_closed>>
    /\ heard' = Hear(heard, out')
    /\ UNCHANGED payoutVars
    /\ UNCHANGED cryptoVars
    /\ UNCHANGED verifyVars
    /\ UNCHANGED codecVars
    /\ UNCHANGED smpcVars

\* GameServer.handle_client, one turn of the read loop on a line that is not a
\* decodable Join or Bid: an empty line is skipped (`continue`), the ValueError
\* of deserialize is logged by `except Exception`, a decoded message of any
\* other type is logged as "Unknown message"; the loop then reads on
handle_line(c, line) ==
    /\ c \notin Gone
    /\ c \notin sleeping \cup ClosingConns \cup broken
    /\ ~(deserialize(line).ok /\ deserialize(line).msg.type \in {"JOIN", "BID"})
    /\ line_log' = ReadLine(line)
    /\ out' = {}
    /\ bidder' = 0
    /\ UNCHANGED <<clients, players, scores, bids, current_round, round_active,
                   sleeping, closing, broken, rounds_closed>>
    /\ heard' = Hear(heard, out')
    /\ UNCHANGED payoutVars
    /\ UNCHANGED cryptoVars
    /\ UNCHANGED verifyVars
    /\ UNCHANGED codecVars
    /\ UNCHANGED smpcVars

LineNext ==
    \/ Next
    \/ \E c \in Conns, line \in ServerLines : handle_line(c, line)

LineSpec == Init /\ [][LineNext]_vars

(* ----------------------------- KeySpec -------------------------------- *)
\* crypto/keys.py: KeyManager.encrypt_session_key / decrypt_session_key between
\* two key managers, and encrypt_with_session_key / decrypt_with_session_key on
\* one payload whose ciphertext may be modified on the way.  Bytes are
\* integers 0..255, byte strings are sequences.  RSA-OAEP and AES are taken to
\* be correct: decrypting under the matching key returns what was encrypted.

\* bytes([b] * n)
Repeat(b, n) == [i \in 1..n |-> b]

\* a byte with its lowest bit flipped
FlipBit(b) == IF b % 2 = 0 THEN b + 1 ELSE b - 1

\* a call returned data / raised exc
Returned(data) == [raised |-> "none", data |-> data]
Raised(exc) == [raised |-> exc, data |-> <<>>]

\* KeyManager.encrypt_for_peer; peer_keys maps the registered peers to the
\* public key stored for them
encrypt_for_peer(peer_keys, player_id, data) ==
    IF player_id \notin DOMAIN peer_keys THEN Raised("ValueError")
    ELSE Returned(encrypt(data, peer_keys[player_id]))

\* KeyManager.encrypt_session_key
encrypt_session_key(peer_keys, session_key, player_id) ==
    encrypt_for_peer(peer_keys, player_id, session_key)

\* KeyManager.decrypt of the key manager of `owner`: base64-decode, then
\* RSA-OAEP under the private key; OAEP rejects what was encrypted under
\* another public key
decrypt(owner, encrypted_data) ==
    LET encrypted == b64decode(encrypted_data)
    IN IF encrypted.key = PublicKey(owner) THEN Returned(encrypted.plain)
       ELSE Raised("EncryptionError")

\* KeyManager.decrypt_session_key
decrypt_session_key(owner, encrypted_session_key) ==
    decrypt(owner, encrypted_session_key)

\* encrypt_with_session_key whose padding bytes hold padding_length - 1
encrypt_with_session_key_short(session_key, data) ==
    LET padding_length == BlockSize - (Len(data) % BlockSize)
        padded_data == data \o Repeat(padding_length - 1, padding_length)
    IN [key |-> session_key, body |-> padded_data, tamper |-> "none"]

\* KeyManager.encrypt_with_session_key: iv + AES-CBC(padded_data).  The result
\* is kept as the key, the blocks that were encrypted (body) and what was done
\* to the bytes afterwards (tamper).
encrypt_with_session_key(session_key, data) ==
    LET padding_length == BlockSize - (Len(data) % BlockSize)
        padded_data == data \o Repeat(padding_length, padding_length)
    IN [key |-> session_key, body |-> padded_data, tamper |-> "none"]

\* the ways the bytes iv + ciphertext are modified on the way: the lowest bit
\* of the first or last byte of the iv or of the ciphertext is flipped, or the
\* last byte is cut off
Tampers == {"iv_first", "iv_last", "ct_first", "ct_last", "cut"}

\* AES-CBC decryption, decryptor.update(ciphertext) + decryptor.finalize():
\* plaintext block i is D(ciphertext block i) xor the previous ciphertext block
\* (the iv for block 1).  A flipped iv bit flips the same bit of block 1; a
\* modified ciphertext block decrypts to unpredictable bytes (noise) and flips
\* the bit in the block after it; under another key every block is noise.
cbc_decrypt(session_key, encrypted_data, noise) ==
    LET body == encrypted_data.body
        n == Len(body)
        tamper == encrypted_data.tamper
    IN IF session_key # encrypted_data.key
       THEN [i \in 1..n |-> noise[((i - 1) % BlockSize) + 1]]
       ELSE IF tamper = "iv_first" THEN [body EXCEPT ![1] = FlipBit(@)]
       ELSE IF tamper = "iv_last" THEN [body EXCEPT ![BlockSize] = FlipBit(@)]
       ELSE IF tamper = "ct_first"
       THEN [i \in 1..n |-> IF i <= BlockSize THEN noise[i]
                            ELSE IF i = BlockSize + 1 THEN FlipBit(body[i])
                            ELSE body[i]]
       ELSE IF tamper = "ct_last"
       THEN [i \in 1..n |-> IF i > n - BlockSize THEN noise[i - (n - BlockSize)]
                            ELSE body[i]]
       ELSE body

\* KeyManager.decrypt_with_session_key.  finalize raises ValueError when the
\* ciphertext is not a whole number of blocks; padded_data[:-padding_length]
\* is empty when padding_length is 0 or at least len(padded_data).
decrypt_with_session_key(session_key, encrypted_data, noise) ==
    IF encrypted_data.tamper = "cut" THEN Raised("ValueError")
    ELSE LET padded_data == cbc_decrypt(session_key, encrypted_data, noise)
             n == Len(padded_data)
             padding_length == padded_data[n]
         IN Returned(IF padding_length = 0 \/ padding_length >= n THEN <<>>
                     ELSE SubSeq(padded_data, 1, n - padding_length))

\* the payloads encrypted: empty, shorter than a block, ending in a byte that
\* looks like padding, exactly one block
KeyPayloads == {<<>>, <<7>>, <<7, 1>>, Repeat(7, BlockSize), Repeat(BlockSize, BlockSize)}

\* blocks AES can produce for bytes it did not encrypt under the key
NoiseBlocks ==
    {Repeat(200, BlockSize),
     Repeat(200, BlockSize - 1) \o <<1>>,
     Repeat(200, BlockSize - 1) \o <<0>>}

\* the session keys in use
SessionKeys == {SessionKey(p) : p \in {"p1a", "p2b"}}

KeyInit ==
    /\ ServerInit
    /\ PayoutIdle
    /\ CryptoIdle
    /\ VerifyIdle
    /\ SmpcIdle
    /\ proto_msg = NoMessage
    /\ proto_line = NoLine
    /\ proto_result = NotDecoded
    /\ proto_valid = "unchecked"
    /\ \/ \* A wraps session key `data` for peer `key`, of which it has stored
          \* the public key of `view` ("None": no key stored); `opener` unwraps
          key_case \in [op : {"wrap"}, data : SessionKeys, key : PlayerIds,
                        view : PlayerIds \cup {"None"}, opener : PlayerIds,
                        tamper : {"none"}]
       \/ \* `data` is encrypted under session key `key`, modified as `tamper`
          \* says and decrypted under session key `opener`
          key_case \in [op : {"seal"}, data : KeyPayloads, key : SessionKeys,
                        view : {"None"}, opener : SessionKeys,
                        tamper : Tampers \cup {"none"}]
    /\ key_stage = "input"
    /\ sealed = NoCall
    /\ opened = NoCall

\* A.encrypt_session_key(data, key)
key_wrap ==
    /\ key_stage = "input"
    /\ key_case.op = "wrap"
    /\ sealed' = encrypt_session_key(
                     IF key_case.view = "None" THEN EmptyDict
                     ELSE [p \in {key_case.key} |-> PublicKey(key_case.view)],
                     key_case.data, key_case.key)
    /\ key_stage' = "sealed"
    /\ UNCHANGED <<key_case, opened>>
    /\ UNCHANGED serverVars
    /\ UNCHANGED payoutVars
    /\ UNCHANGED cryptoVars
    /\ UNCHANGED verifyVars
    /\ UNCHANGED smpcVars
    /\ UNCHANGED protoVars

\* opener.decrypt_session_key(what A returned)
key_unwrap ==
    /\ key_stage = "sealed"
    /\ key_case.op = "wrap"
    /\ sealed.raised = "none"
    /\ opened' = decrypt_session_key(key_case.opener, sealed.data)
    /\ key_stage' = "opened"
    /\ UNCHANGED <<key_case, sealed>>
    /\ UNCHANGED serverVars
    /\ UNCHANGED payoutVars
    /\ UNCHANGED cryptoVars
    /\ UNCHANGED verifyVars
    /\ UNCHANGED smpcVars
    /\ UNCHANGED protoVars

\* KeyManager.encrypt_with_session_key(key, data)
key_seal ==
    /\ key_stage = "input"
    /\ key_case.op = "seal"
    /\ sealed' = Returned(encrypt_with_session_key(key_case.key, key_case.data))
    /\ key_stage' = "sealed"
    /\ UNCHANGED <<key_case, opened>>
    /\ UNCHANGED serverVars
    /\ UNCHANGED payoutVars
    /\ UNCHANGED cryptoVars
    /\ UNCHANGED verifyVars
    /\ UNCHANGED smpcVars
    /\ UNCHANGED protoVars

\* the bytes are modified between the two calls
key_tamper ==
    /\ key_stage = "sealed"
    /\ key_case.op = "seal"
    /\ key_case.tamper # "none"
    /\ sealed' = Returned([sealed.data EXCEPT !.tamper = key_case.tamper])
    /\ key_stage' = "tampered"
    /\ UNCHANGED <<key_case, opened>>
    /\ UNCHANGED serverVars
    /\ UNCHANGED payoutVars
    /\ UNCHANGED cryptoVars
    /\ UNCHANGED verifyVars
    /\ UNCHANGED smpcVars
    /\ UNCHANGED protoVars

\* KeyManager.decrypt_with_session_key(opener, the bytes received)
key_open ==
    /\ key_case.op = "seal"
    /\ \/ key_stage = "sealed" /\ key_case.tamper = "none"
       \/ key_stage = "tampered"
    /\ \E noise \in NoiseBlocks :
          opened' = decrypt_with_session_key(key_case.opener, sealed.data, noise)
    /\ key_stage' = "opened"
    /\ UNCHANGED <<key_case, sealed>>
    /\ UNCHANGED serverVars
    /\ UNCHANGED payoutVars
    /\ UNCHANGED cryptoVars
    /\ UNCHANGED verifyVars
    /\ UNCHANGED smpcVars
    /\ UNCHANGED protoVars

KeyNext == key_wrap \/ key_unwrap \/ key_seal \/ key_tamper \/ key_open

KeySpec == KeyInit /\ [][KeyNext]_vars

(* --------------------------- crypto/smpc.py --------------------------- *)
\* Player ids: k >= 1 stands for f"p{k}", 0 for an id that does not start
\* with 'p'.  A shares dict {p1: .., pn: ..} is the sequence of its values.

\* generate_shares, additive branch: the values of shares k..n (1-based) when
\* `remaining` is left; share i (0-based) is remaining // (num_players - i)
RECURSIVE additive_shares(_, _, _)
additive_shares(n, k, remaining) ==
    IF k >= n THEN <<remaining>>
    ELSE LET share_value == remaining \div (n - (k - 1))
         IN <<share_value>> \o additive_shares(n, k + 1, remaining - share_value)

\* generate_shares whose additive branch gives every player secret // num_players
generate_shares_even(player_id, n, secret) ==
    IF player_id # 0
    THEN [k \in 1..n |-> secret]
    ELSE [k \in 1..n |-> secret \div n]

\* SMPCProtocol(player_id, n).generate_shares(secret)
generate_shares(player_id, n, secret) ==
    IF player_id # 0
    THEN [k \in 1..n |-> secret]
    ELSE additive_shares(n, 1, secret)

RECURSIVE SumSeq(_)
SumSeq(q) == IF q = <<>> THEN 0 ELSE Head(q) + SumSeq(Tail(q))

\* SMPCProtocol(player_id, n).reconstruct_secret(list(shares.values()))
reconstruct_secret(player_id, values) ==
    IF player_id # 0 THEN values[1] ELSE SumSeq(values)

\* SMPCProtocol.verify_share_range
verify_share_range(value, max_value) == 0 <= value /\ value <= max_value

\* create_bid_shares that tests only the upper end of the range
create_bid_shares_upper(player_id, n, bid_amount) ==
    IF ~(bid_amount <= max_bid)
    THEN Raised("ValueError")
    ELSE Returned(generate_shares(player_id, n, bid_amount))

\* BidManager(player_id, n).create_bid_shares(bid_amount)
create_bid_shares(player_id, n, bid_amount) ==
    IF ~(0 <= bid_amount /\ bid_amount <= max_bid)
    THEN Raised("ValueError")
    ELSE Returned(generate_shares(player_id, n, bid_amount))

\* compute_total_bid without its expected_shares test
compute_total_bid_partial(n, cs) == Returned(SumOver(cs, DOMAIN cs))

\* BidManager.compute_total_bid on current_shares cs
compute_total_bid(n, cs) ==
    IF (1..n) # DOMAIN cs
    THEN Raised("ValueError")
    ELSE Returned(SumOver(cs, DOMAIN cs))

(* ----------------------------- SmpcSpec ------------------------------- *)
\* n BidManagers p1..pn: each creates the shares of its own bid, the share
\* addressed to a manager is handed to its receive_share, and any manager may
\* be asked for compute_total_bid at any time.

Managers == 1..smpc_n

\* the bid manager i is given: one inside the range, different for each
\* manager, or one above max_bid
ManagerBids(i) == {10 * i, max_bid + 1}

SmpcInit ==
    /\ ServerInit
    /\ PayoutIdle
    /\ CryptoIdle
    /\ VerifyIdle
    /\ CodecIdle
    /\ smpc_n \in 1..NumManagers
    /\ smpc_bids \in [1..smpc_n -> UNION {ManagerBids(i) : i \in 1..NumManagers}]
    /\ \A i \in 1..smpc_n : smpc_bids[i] \in ManagerBids(i)
    /\ shares = [i \in 1..smpc_n |-> NoCall]
    /\ current_shares = [i \in 1..smpc_n |-> EmptyDict]
    /\ total = NoTotal
    /\ smpc_call = [op |-> "none"]
    /\ smpc_shares = NoCall
    /\ smpc_secret = NoCall

\* manager i: create_bid_shares(smpc_bids[i])
smpc_create(i) ==
    /\ shares[i] = NoCall
    /\ shares' = [shares EXCEPT ![i] = create_bid_shares(i, smpc_n, smpc_bids[i])]
    /\ total' = NoTotal
    /\ UNCHANGED <<smpc_n, smpc_bids, current_shares, smpc_call, smpc_shares, smpc_secret>>
    /\ UNCHANGED serverVars
    /\ UNCHANGED payoutVars
    /\ UNCHANGED cryptoVars
    /\ UNCHANGED verifyVars
    /\ UNCHANGED codecVars

\* manager j: receive_share(shares_i[pj]), the share originator i addressed to it
smpc_receive(j, i) ==
    /\ shares[i].raised = "none"
    /\ i \notin DOMAIN current_shares[j]
    /\ LET share == [value |-> shares[i].data[j], player_id |-> j, from_player |-> i]
       IN IF verify_share_range(share.value, max_bid)
          THEN current_shares' =
                   [current_shares EXCEPT ![j] = Put(@, share.from_player, share.value)]
          ELSE UNCHANGED current_shares
    /\ total' = NoTotal
    /\ UNCHANGED <<smpc_n, smpc_bids, shares, smpc_call, smpc_shares, smpc_secret>>
    /\ UNCHANGED serverVars
    /\ UNCHANGED payoutVars
    /\ UNCHANGED cryptoVars
    /\ UNCHANGED verifyVars
    /\ UNCHANGED codecVars

\* manager j: compute_total_bid()
smpc_compute(j) ==
    /\ total' = [manager |-> j, result |-> compute_total_bid(smpc_n, current_shares[j])]
    /\ UNCHANGED <<smpc_n, smpc_bids, shares, current_shares, smpc_call, smpc_shares,
                   smpc_secret>>
    /\ UNCHANGED serverVars
    /\ UNCHANGED payoutVars
    /\ UNCHANGED cryptoVars
    /\ UNCHANGED verifyVars
    /\ UNCHANGED codecVars

SmpcNext ==
    \/ \E i \in Managers : smpc_create(i)
    \/ \E j \in Managers : \E i \in Managers : smpc_receive(j, i)
    \/ \E j \in Managers : smpc_compute(j)

SmpcSpec == SmpcInit /\ [][SmpcNext]_vars

(* ----------------------------- ShareSpec ------------------------------ *)
\* SMPCProtocol.generate_shares followed by reconstruct_secret, and
\* BidManager.create_bid_shares, each on one input.

Secrets == {-7, 0, 1, 50, 100}

\* the amounts create_bid_shares is called with: both ends of the range, the
\* values next to them, and values further away
CreateAmounts == BidAmounts \cup {-1, 1, max_bid - 1, max_bid + 1}

ShareInit ==
    /\ ServerInit
    /\ PayoutIdle
    /\ CryptoIdle
    /\ VerifyIdle
    /\ CodecIdle
    /\ smpc_n = 0
    /\ smpc_bids = EmptyDict
    /\ shares = EmptyDict
    /\ current_shares = EmptyDict
    /\ total = NoTotal
    /\ \/ smpc_call \in [op : {"share"}, player_id : {0, 1},
                         num_players : 1..NumManagers, arg : Secrets]
       \/ smpc_call \in [op : {"create_bid_shares"}, player_id : {0, 1},
                         num_players : 1..NumManagers, arg : CreateAmounts]
    /\ smpc_shares = NoCall
    /\ smpc_secret = NoCall

\* SMPCProtocol(player_id, num_players).generate_shares(arg)
share_generate ==
    /\ smpc_call.op = "share"
    /\ smpc_shares = NoCall
    /\ smpc_shares' = Returned(generate_shares(smpc_call.player_id, smpc_call.num_players,
                                               smpc_call.arg))
    /\ UNCHANGED <<smpc_n, smpc_bids, shares, current_shares, total, smpc_call, smpc_secret>>
    /\ UNCHANGED serverVars
    /\ UNCHANGED payoutVars
    /\ UNCHANGED cryptoVars
    /\ UNCHANGED verifyVars
    /\ UNCHANGED codecVars

\* reconstruct_secret(list(shares.values())) on the shares just generated
share_reconstruct ==
    /\ smpc_call.op = "share"
    /\ smpc_shares.raised = "none"
    /\ smpc_secret = NoCall
    /\ smpc_secret' = Returned(reconstruct_secret(smpc_call.player_id, smpc_shares.data))
    /\ UNCHANGED <<smpc_n, smpc_bids, shares, current_shares, total, smpc_call, smpc_shares>>
    /\ UNCHANGED serverVars
    /\ UNCHANGED payoutVars
    /\ UNCHANGED cryptoVars
    /\ UNCHANGED verifyVars
    /\ UNCHANGED codecVars

\* BidManager(player_id, num_players).create_bid_shares(arg)
share_create ==
    /\ smpc_call.op = "create_bid_shares"
    /\ smpc_shares = NoCall
    /\ smpc_shares' = create_bid_shares(smpc_call.player_id, smpc_call.num_players,
                                        smpc_call.arg)
    /\ UNCHANGED <<smpc_n, smpc_bids, shares, current_shares, total, smpc_call, smpc_secret>>
    /\ UNCHANGED serverVars
    /\ UNCHANGED payoutVars
    /\ UNCHANGED cryptoVars
    /\ UNCHANGED verifyVars
    /\ UNCHANGED codecVars

ShareNext == share_generate \/ share_reconstruct \/ share_create

ShareSpec == ShareInit /\ [][ShareNext]_vars

(* ----------------------------- RoundSpec ------------------------------ *)
\* GameState driven directly, as tests/test_game_state.py drives it:
\* add_player, start_round, place_bid and end_round called on the object.

\* the integer bids place_bid is given
RoundBids == {20, 50, 60}

\* GameState.place_bid(player_id, bid)
state_place_bid(player_id, bid) ==
    /\ IF place_bid_error(round_active, players, bids, player_id) # "none"
       THEN raised' = "ValueError" /\ UNCHANGED bids
       ELSE raised' = "none" /\ bids' = Put(bids, player_id, NumPayload(bid))
    /\ end_result' = NoCall
    /\ UNCHANGED decrypted_bids
    /\ UNCHANGED <<clients, players, scores, current_round, round_active,
                   sleeping, closing, broken, rounds_closed, out, bidder, line_log, heard>>
    /\ UNCHANGED payoutVars
    /\ UNCHANGED cryptoVars
    /\ UNCHANGED codecVars
    /\ UNCHANGED smpcVars

\* GameState.calculate_round_results_smpc: {} outside a complete active round;
\* otherwise the dict comprehension calls self.players.items(), and
\* self.players is the list add_player appends to, so AttributeError is raised,
\* which `except ValueError` does not catch
calculate_round_results_smpc ==
    IF ~round_active \/ ~all_bids_placed
    THEN Returned(EmptyDict)
    ELSE Raised("AttributeError")

\* GameState.end_round(): its two early returns, then the exception of
\* calculate_round_results_smpc passes through it before round_active is written
state_end_round ==
    /\ LET results == calculate_round_results_smpc
       IN /\ end_result' = IF ~round_active \/ ~all_bids_placed
                           THEN Returned(EmptyDict)
                           ELSE results
          /\ raised' = IF ~round_active \/ ~all_bids_placed
                       THEN "none"
                       ELSE results.raised
    /\ UNCHANGED decrypted_bids
    /\ UNCHANGED serverVars
    /\ UNCHANGED payoutVars
    /\ UNCHANGED cryptoVars
    /\ UNCHANGED codecVars
    /\ UNCHANGED smpcVars

RoundNext ==
    \/ \E c \in Conns : add_player(c)
    \/ state_start_round
    \/ \E c \in Conns : \E b \in RoundBids : state_place_bid(c, b)
    \/ state_end_round

RoundSpec == Init /\ [][RoundNext]_vars

(* ----------------------------- ClientSpec ----------------------------- *)
\* One GameClient: receive_messages hands each message of the server to
\* handle_message, and handle_commands calls send_bid.  Neither suspends
\* between reading _round_active and writing: send_bid encrypts and writes the
\* Bid before its first await, and the handlers registered in this repository
\* (ConsoleUI.handle_start_round / handle_end_round) return without awaiting or
\* raising on the messages GameServer builds.  bid_input holds the client's
\* player_id, player_keys and _round_active and the amount last typed; bid_msg
\* what the latest step's send_bid did.

\* the client's connection, as the server numbers it
ClientConn == CHOOSE c \in Conns : TRUE

\* GameClient.__init__, then connect
ClientInit ==
    /\ ServerInit
    /\ PayoutIdle
    /\ bid_input = [player_id |-> "p1a", amount |-> 0, player_keys |-> {},
                    round_active |-> FALSE]
    /\ session_peers = {}
    /\ bid_msg = NoBidMessage
    /\ bid_value = EmptyDict
    /\ VerifyIdle
    /\ SmpcIdle
    /\ CodecIdle

\* GameClient.handle_message, JOIN branch, for a Join that carries a public key
client_join(peer) ==
    /\ peer # bid_input.player_id
    /\ bid_input' = [bid_input EXCEPT !.player_keys = @ \cup {peer}]
    /\ bid_msg' = NoBidMessage
    /\ UNCHANGED <<session_peers, bid_value>>
    /\ UNCHANGED serverVars
    /\ UNCHANGED payoutVars
    /\ UNCHANGED verifyVars
    /\ UNCHANGED codecVars
    /\ UNCHANGED smpcVars

\* GameClient.handle_message, START_ROUND branch
client_start_round ==
    /\ bid_input' = [bid_input EXCEPT !.round_active = TRUE]
    /\ heard' = [heard EXCEPT ![ClientConn] = "START_ROUND"]
    /\ bid_msg' = NoBidMessage
    /\ UNCHANGED <<session_peers, bid_value>>
    /\ UNCHANGED <<clients, players, scores, bids, current_round, round_active,
                   sleeping, closing, broken, rounds_closed, out, bidder, line_log>>
    /\ UNCHANGED payoutVars
    /\ UNCHANGED verifyVars
    /\ UNCHANGED codecVars
    /\ UNCHANGED smpcVars

\* an END_ROUND branch that leaves _round_active as it is
client_end_round_keep ==
    /\ heard' = [heard EXCEPT ![ClientConn] = "END_ROUND"]
    /\ bid_msg' = NoBidMessage
    /\ UNCHANGED <<bid_input, session_peers, bid_value>>
    /\ UNCHANGED <<clients, players, scores, bids, current_round, round_active,
                   sleeping, closing, broken, rounds_closed, out, bidder, line_log>>
    /\ UNCHANGED payoutVars
    /\ UNCHANGED verifyVars
    /\ UNCHANGED codecVars
    /\ UNCHANGED smpcVars

\* GameClient.handle_message, END_ROUND branch
client_end_round ==
    /\ bid_input' = [bid_input EXCEPT !.round_active = FALSE]
    /\ heard' = [heard EXCEPT ![ClientConn] = "END_ROUND"]
    /\ bid_msg' = NoBidMessage
    /\ UNCHANGED <<session_peers, bid_value>>
    /\ UNCHANGED <<clients, players, scores, bids, current_round, round_active,
                   sleeping, closing, broken, rounds_closed, out, bidder, line_log>>
    /\ UNCHANGED payoutVars
    /\ UNCHANGED verifyVars
    /\ UNCHANGED codecVars
    /\ UNCHANGED smpcVars

\* GameClient.send_bid(amount), the amount typed being a number
client_bid(amount) ==
    /\ IF ~bid_input.round_active
       THEN /\ bid_msg' = UnsentBid
            /\ bid_input' = [bid_input EXCEPT !.amount = amount]
       ELSE /\ bid_msg' = BidMessage(send_bid(bid_input.player_id, amount,
                                              bid_input.player_keys))
            /\ bid_input' = [bid_input EXCEPT !.amount = amount]
    /\ UNCHANGED <<session_peers, bid_value>>
    /\ UNCHANGED serverVars
    /\ UNCHANGED payoutVars
    /\ UNCHANGED verifyVars
    /\ UNCHANGED codecVars
    /\ UNCHANGED smpcVars

ClientNext ==
    \/ \E peer \in PlayerIds : client_join(peer)
    \/ client_start_round
    \/ client_end_round
    \/ \E amount \in BidAmounts : client_bid(amount)

ClientSpec == ClientInit /\ [][ClientNext]_vars

(* ------------------------------ claims -------------------------------- *)

ChestDone == chest_result # NoResult
ChestTotal == SumOver(chest_bids, DOMAIN chest_bids)
ChestCount == Cardinality(DOMAIN chest_bids)

\* every participant joined once: GameState.players holds no id twice
DistinctJoins == \A c \in DOMAIN players : players[c] <= 1

\* C1: a round is never closed while fewer bids are recorded for it than the
\* roster (GameState.players) has participants.  Stated for the runs in which
\* no connection joins twice, so that it does not rest on repeated Joins.
C1_NoCloseWithMissingBids ==
    [][(DistinctJoins /\ bidder' # 0 /\ rounds_closed' = rounds_closed + 1)
          => Cardinality(DOMAIN bids \cup {bidder'}) >= Cardinality(Roster(players))]_vars

RoundEndedBroadcast ==
    /\ clients # {}
    /\ \A c \in clients : \E m \in out : m.type = "END_ROUND" /\ m.to = c

AllConnectedBid ==
    /\ DistinctJoins
    /\ round_active
    /\ clients # {}
    /\ clients \subseteq DOMAIN bids

\* C2: once every connected participant has submitted a Bid for the active
\* round, RoundEnded with the round's results is eventually broadcast to every
\* connected participant.  Stated for participants that joined once each; a
\* behaviour in which a join or a disconnect ends the condition before the
\* broadcast is not held against the claim.
C2_AllBidsCloseRound == AllConnectedBid ~> (RoundEndedBroadcast \/ ~AllConnectedBid)

\* C3: when the bids sum to at most the treasure, every payout equals the bid,
\* total_bid is the sum of the bids and exceeded_limit is false.
C3_PayoutEqualsBid ==
    (ChestDone /\ ChestTotal <= TREASURE_AMOUNT)
        => /\ DOMAIN chest_result.payouts = DOMAIN chest_bids
           /\ \A p \in DOMAIN chest_bids : chest_result.payouts[p] = chest_bids[p]
           /\ chest_result.total_bid = ChestTotal
           /\ chest_result.exceeded_limit = FALSE

\* Scenario A
C3_Witness ==
    /\ chest_bids = [p \in {1, 2, 3} |-> IF p = 1 THEN 30 ELSE IF p = 2 THEN 40 ELSE 20]
    /\ ChestDone
    /\ chest_result.payouts = chest_bids
    /\ chest_result.total_bid = 90

Qualifying == {p \in DOMAIN chest_bids : chest_bids[p] * ChestCount <= TREASURE_AMOUNT}

\* C4: when the bids sum to more than the treasure, exceeded_limit is true,
\* exactly the participants with bid <= treasure / participant_count are paid,
\* each int(treasure / qualifying_count); nobody else is paid, and nobody at
\* all when no participant qualifies.
C4_GreedyPayout ==
    (ChestDone /\ ChestTotal > TREASURE_AMOUNT)
        => /\ chest_result.exceeded_limit = TRUE
           /\ DOMAIN chest_result.payouts = Qualifying
           /\ \A p \in Qualifying :
                 chest_result.payouts[p] = TREASURE_AMOUNT \div Cardinality(Qualifying)
           /\ (Qualifying = {} => chest_result.payouts = EmptyDict)

\* Scenario B
C4_Witness ==
    /\ chest_bids = [p \in {1, 2, 3} |-> IF p = 1 THEN 60 ELSE IF p = 2 THEN 50 ELSE 20]
    /\ ChestDone
    /\ chest_result.total_bid = 130
    /\ DOMAIN chest_result.payouts = {3}
    /\ chest_result.payouts[3] = 100

\* C5: when every bid is 0, calculate_payouts pays every participant
\* treasure_amount // participant_count.
C5_ZeroBidsSplitEvenly ==
    (ChestDone /\ ChestCount > 0 /\ \A p \in DOMAIN chest_bids : chest_bids[p] = 0)
        => /\ DOMAIN chest_result.payouts = DOMAIN chest_bids
           /\ \A p \in DOMAIN chest_bids :
                 chest_result.payouts[p] = TREASURE_AMOUNT \div ChestCount

ChestPayout(p) ==
    IF p \in DOMAIN chest_result.payouts THEN chest_result.payouts[p] ELSE 0

\* C6: the share the server's round close computes for a participant equals
\* the payout TreasureChest.calculate_payouts gives it for the same bids.
C6_ServerShareIsChestPayout ==
    (ChestDone /\ round_result # EmptyDict)
        => \A p \in DOMAIN chest_bids :
              /\ p \in DOMAIN round_result
              /\ round_result[p].share = ChestPayout(p)

C8_NoRoundAfterMaxRounds ==
    [][(DistinctJoins' /\ rounds_closed >= max_rounds)
         => /\ is_game_over
            /\ current_round' = current_round
            /\ ~round_active']_vars

\* C9: when the round that closes has the counter max_rounds the server starts
\* no further round: the counter never exceeds max_rounds, and from the closed
\* last round on no round is active again.  Stated for the runs in which no
\* connection joins twice.
C9_GameOverAtMaxRounds ==
    /\ [](DistinctJoins => current_round <= max_rounds)
    /\ [][(DistinctJoins' /\ current_round = max_rounds /\ ~round_active)
            => (current_round' = current_round /\ ~round_active')]_vars

\* C10: with fewer than min_players distinct participants joined, no round is
\* active and the round counter is 0.
C10_NoRoundBeforeMinPlayers ==
    Cardinality(Roster(players)) < min_players
        => (~round_active /\ current_round = 0)

\* C11: round numbers are 1-based and advance by exactly one per round: a step
\* of the server that changes GameState.current_round raises it by exactly 1, so
\* the first active round is round 1.  Stated for the runs in which no
\* connection joins twice.
C11_RoundsAdvanceByOne ==
    [][DistinctJoins'
         => (current_round' = current_round \/ current_round' = current_round + 1)]_vars

\* C12: when a connection closes during an active round and fewer than
\* min_players participants remain connected, the round is abandoned (no longer
\* active) and an Error message is written to every remaining participant.
C12_DisconnectAbandonsRound ==
    [][(/\ DistinctJoins
        /\ round_active
        /\ clients' # clients
        /\ clients' \subseteq clients
        /\ Cardinality(clients') < min_players)
         => /\ ~round_active'
            /\ \A o \in clients' : \E m \in out' : m.type = "ERROR" /\ m.to = o]_vars

\* C13: when a joined participant's connection closes, the participant leaves
\* GameState.players, GameState.scores and GameState.bids, and the scores and
\* bids of every other participant are unchanged.
C13_DisconnectRemovesPlayer ==
    [][\A c \in clients \ clients' :
          /\ players'[c] = 0
          /\ c \notin DOMAIN scores'
          /\ c \notin DOMAIN bids'
          /\ \A o \in DOMAIN scores \ {c} : o \in DOMAIN scores' /\ scores'[o] = scores[o]
          /\ \A o \in DOMAIN bids \ {c} : o \in DOMAIN bids' /\ bids'[o] = bids[o]]_vars

\* C16: when the server records the Bid of a joined participant in an active
\* round, it writes a BID message carrying that bid to every other connected
\* participant.  Stated for the runs in which no connection joins twice.
C16_BidForwarded ==
    [][(DistinctJoins /\ bidder' # 0 /\ bidder' \notin DOMAIN bids /\ bidder' \in DOMAIN bids')
         => \A o \in clients \ {bidder'} :
               \E m \in out' : m.type = "BID" /\ m.to = o /\ m.player_id = bidder']_vars

\* C18: a participant that joins is sent, and so stores, the public key of
\* every participant that joined before it: the JOIN messages written to it in
\* the step of its own Join cover every participant already connected.  Stated
\* for the runs in which no connection joins twice.
C18_JoinerLearnsEarlierKeys ==
    [][\A c \in clients' \ clients :
          DistinctJoins' => clients \subseteq handle_message_keys(out', c)]_vars

\* GameServer.end_round can compute the results of the bids recorded
NumericBids == \A q \in DOMAIN bids : IntConvertible(bids[q])

\* a participant that bid in the active round has left it since, at least
\* min_players participants remain connected and each of them has bid (and the
\* run is still within the rounds it is followed through)
AllRemainingBid ==
    /\ DistinctJoins
    /\ round_active
    /\ NumericBids
    /\ Gone \cap DOMAIN bids # {}
    /\ Cardinality(clients) >= min_players
    /\ rounds_closed < MaxCloses
    /\ clients \subseteq DOMAIN bids

\* C14: a disconnect during an active round does not deadlock it: when a
\* participant has left the round and the remaining ones, still at least
\* min_players, have all submitted a bid, the round eventually closes with
\* RoundEnded broadcast to them.  A behaviour in which a further disconnect ends
\* the condition first is not held against the claim.
C14_RemovalDoesNotDeadlock == AllRemainingBid ~> (RoundEndedBroadcast \/ ~AllRemainingBid)

Addressed == bid_input.player_keys \ {bid_input.player_id}

\* C17: a recipient that send_bid encrypted the bid for, and that has processed
\* the Bid with handle_bid, has decrypted the value that was sent.
C17_RecipientDecryptsSentBid ==
    \A r \in DOMAIN bid_value :
        r \in Addressed => bid_value[r] = bid_input.amount

\* C19: every value process_decrypted_bid accepts as a participant's verified
\* bid (GameState.bids) is an integer in [0, treasure_amount].  Stated for
\* rosters that hold no id twice.
C19_VerifiedBidInRange ==
    DistinctJoins =>
        \A f \in DOMAIN bids :
            /\ bids[f].kind = "num"
            /\ 0 <= bids[f].val
            /\ bids[f].val <= TREASURE_AMOUNT

\* two decrypted copies recorded for originator f in this round, each by
\* another participant, disagree
Disagree(f) ==
    /\ f \in DOMAIN decrypted_bids
    /\ \E t1, t2 \in DOMAIN decrypted_bids[f] \ {f} :
          decrypted_bids[f][t1] # decrypted_bids[f][t2]

\* C20: an originator for which two recorded decrypted copies disagree has no
\* verified bid in GameState.bids.  Stated for rosters that hold no id twice.
C20_InconsistentBidRejected ==
    DistinctJoins =>
        \A f \in Originators : Disagree(f) => f \notin DOMAIN bids

\* C21: the peer agent never forwards an out-of-range bid: a Bid message that
\* send_bid has sent carries an amount within [0, treasure_amount].
C21_NoOutOfRangeBidSent ==
    bid_msg.type = "BID"
        => (0 <= bid_input.amount /\ bid_input.amount <= TREASURE_AMOUNT)

\* C22: the game admits at most max_players participants: the roster never
\* holds more than max_players entries.
C22_RosterWithinMaxPlayers == RosterLen(players) <= max_players

\* C23: a participant's cumulative score after a round equals the score before
\* it plus the share the round's result reports for that participant, the
\* all-zero-bids round included.  The bidders of round_calculate were added
\* with score 0, so after the round each score is the reported share.
C23_ScoreGrowsByReportedShare ==
    round_result # EmptyDict =>
        \A p \in DOMAIN round_result :
            p \in DOMAIN scores /\ scores[p] = round_result[p].share

\* the six kinds of the protocol
SixKinds == {"JOIN", "BID", "START_ROUND", "END_ROUND", "GAME_OVER", "ERROR"}

\* C24: deserialize(serialize(m)) reproduces type, player_id, data and round
\* number of m, for every message m built by the constructor of one of the
\* six kinds.
C24_RoundTripReproducesFields ==
    (/\ proto_msg.type \in SixKinds
     /\ proto_msg.data # EmptyDict \/ proto_msg.type = "START_ROUND"
     /\ proto_line = serialize(proto_msg)
     /\ proto_result # NotDecoded)
        => (proto_result.ok /\ proto_result.msg = proto_msg)

\* the fields a Join must carry
JoinFields == {"player_name", "public_key"}

\* decoding a Join record whose data lacks player_name or public_key fails
JoinRecordRejected ==
    (/\ proto_line.shape = "object"
     /\ proto_line.type = "JOIN"
     /\ proto_line.data_kind = "dict"
     /\ ~(JoinFields \subseteq DOMAIN proto_line.data)
     /\ proto_result # NotDecoded)
        => ~proto_result.ok

\* validate_message returns an error for a Join message whose data has
\* neither field
JoinMessageRejected ==
    (/\ proto_msg.type = "JOIN"
     /\ JoinFields \cap DOMAIN proto_msg.data = {}
     /\ proto_valid # "unchecked")
        => proto_valid # "None"

\* C26: a Join that lacks a required field is reported as malformed: decoding
\* a Join record without player_name or public_key fails, and validate_message
\* returns an error for a Join message whose data has neither.
C26_MissingFieldsReported == JoinRecordRejected /\ JoinMessageRejected

\* C28: a Bid of a joined participant handled while no round is active is
\* answered with one Error message written to that sender only; the recorded
\* bids, the roster, the scores, the round counter and round_active are
\* unchanged, and the sender stays among the server's connections.
C28_BidOutsideRoundRejected ==
    [][(bidder' # 0 /\ ~round_active)
          => /\ out' \in {{ErrorMessage(bidder', e)} :
                           e \in {"No encrypted bids received",
                                  "Cannot bid - round not active"}}
             /\ bids' = bids
             /\ UNCHANGED <<players, scores, current_round, round_active,
                            rounds_closed, clients, sleeping>>
             /\ bidder' \in clients']_vars

C28_Witness ==
    /\ bidder # 0
    /\ ~round_active
    /\ current_round > 0
    /\ out = {ErrorMessage(bidder, "Cannot bid - round not active")}

\* a line that cannot be decoded: text that is not a JSON object, an object
\* whose 'type' is missing or names no message kind, or whose 'data' is not a
\* mapping
Undecodable(line) ==
    \/ line.shape \in {"garbage", "array"}
    \/ /\ line.shape = "object"
       /\ line.type \notin MessageType \/ line.data_kind = "int"

\* C25: when the read loop reads a line that cannot be decoded, deserialize
\* raises an error, nothing is written, and the server's connections (the one
\* that sent the line among them), the roster and the round state are
\* unchanged.
C25_UndecodableLineDropped ==
    [][(line_log' # NoLog /\ Undecodable(line_log'.line))
          => /\ ~line_log'.result.ok
             /\ line_log'.result.raised = "ValueError"
             /\ out' = {}
             /\ UNCHANGED <<clients, players, scores, bids, current_round,
                            round_active, sleeping, closing, rounds_closed>>]_vars

C25_Witness ==
    /\ line_log # NoLog
    /\ Undecodable(line_log.line)
    /\ line_log.line.type = "FOO"
    /\ clients # {}
    /\ round_active
    /\ DOMAIN bids # {}

\* C29: key round trip.  When A has stored B's public key, B's
\* decrypt_session_key returns the session key A's encrypt_session_key wrapped
\* for B; and decrypt_with_session_key under the key that encrypted an
\* unmodified ciphertext returns the payload that was encrypted.
C29_KeyRoundTrip ==
    key_stage = "opened" =>
        /\ (key_case.op = "wrap" /\ key_case.view = key_case.key
                /\ key_case.opener = key_case.key)
              => (opened.raised = "none" /\ opened.data = key_case.data)
        /\ (key_case.op = "seal" /\ key_case.tamper = "none"
                /\ key_case.opener = key_case.key)
              => (opened.raised = "none" /\ opened.data = key_case.data)

C29_Witness ==
    /\ key_stage = "opened"
    /\ key_case.op = "seal"
    /\ key_case.tamper = "none"
    /\ key_case.opener = key_case.key
    /\ key_case.data = Repeat(BlockSize, BlockSize)
    /\ opened = Returned(key_case.data)

\* C30: tamper detection.  decrypt_with_session_key raises an error whenever
\* the ciphertext was modified after encryption or the key differs from the
\* encrypting key, and what it returns is never different from the payload
\* that was encrypted.
C30_TamperingRaises ==
    (key_stage = "opened" /\ key_case.op = "seal") =>
        /\ (key_case.tamper # "none" \/ key_case.opener # key_case.key)
              => opened.raised # "none"
        /\ opened.raised = "none" => opened.data = key_case.data

\* C27: a failed send to one participant does not keep a Join from being sent
\* to every other participant that stays connected, and removes no participant
\* other than the failing one: after a step that adds connection c to the
\* roster, c is among the server's connections and a JOIN for c has been
\* written to every other connection whose transport is not lost.
C27_JoinReachesEveryPeer ==
    [][\A c \in Conns :
          players'[c] > players[c]
            => /\ c \in clients'
               /\ \A o \in (clients \ broken) \ {c} : JoinMessage(o, c) \in out']_vars

\* manager j has received a share from every expected originator
AllSharesReceived(j) == \A i \in Managers : i \in DOMAIN current_shares[j]

\* C31: at every manager that has received the share addressed to it from each
\* of p1..pn, compute_total_bid returns the sum of the n bids (so the same
\* value at every manager); at a manager with a share missing it raises
\* instead of returning a total.
C31_SameTotalEverywhere ==
    /\ \A j \in Managers :
          LET r == compute_total_bid(smpc_n, current_shares[j])
          IN IF AllSharesReceived(j)
             THEN r = Returned(SumOver(smpc_bids, Managers))
             ELSE r.raised = "ValueError"
    /\ total.manager # 0
          => total.result = compute_total_bid(smpc_n, current_shares[total.manager])

\* three managers hold every share and one has computed the total ...
C31_Witness ==
    /\ smpc_n >= 3
    /\ \A j \in Managers : AllSharesReceived(j)
    /\ total.manager # 0
    /\ total.result = Returned(SumOver(smpc_bids, Managers))

\* C32: generate_shares returns exactly num_players shares, and
\* reconstruct_secret applied to all of them returns the secret, in the
\* full-copy mode and in the additive mode.
C32_ShareRoundTrip ==
    smpc_call.op = "share"
      => /\ smpc_shares # NoCall => Len(smpc_shares.data) = smpc_call.num_players
         /\ smpc_secret # NoCall => smpc_secret = Returned(smpc_call.arg)

\* an additive sharing among three players whose shares are not all equal
C32_Witness ==
    /\ smpc_call.op = "share"
    /\ smpc_call.player_id = 0
    /\ smpc_call.num_players >= 3
    /\ smpc_call.arg = 50
    /\ smpc_secret = Returned(50)

\* C34: create_bid_shares(v) raises and produces no shares when v < 0 or
\* v > max_bid, and returns num_players shares for every v in [0, max_bid].
C34_BidRangeEnforced ==
    (smpc_call.op = "create_bid_shares" /\ smpc_shares # NoCall)
      => IF smpc_call.arg < 0 \/ smpc_call.arg > max_bid
         THEN smpc_shares = Raised("ValueError")
         ELSE /\ smpc_shares.raised = "none"
              /\ Len(smpc_shares.data) = smpc_call.num_players

\* a negative bid has been refused
C34_Witness ==
    /\ smpc_call.op = "create_bid_shares"
    /\ smpc_call.arg = -1
    /\ smpc_shares = Raised("ValueError")

\* the integer bids recorded in GameState.bids
PlacedBids == [p \in DOMAIN bids |-> IntOf(bids[p])]

\* C33: GameState.end_round on an active round in which every player of the
\* roster has placed an integer bid returns total_bid = the sum of the bids and
\* the payouts of the treasure rule, and makes the round inactive.
C33_EndRoundReturnsPayouts ==
    [][(/\ round_active
        /\ RosterLen(players) > 0
        /\ all_bids_placed
        /\ \A p \in DOMAIN bids : bids[p].kind = "num"
        /\ end_result' # NoCall)
          => /\ end_result'.raised = "none"
             /\ end_result'.data.total_bid = SumOver(PlacedBids, DOMAIN bids)
             /\ end_result'.data.payouts =
                    calculate_payouts(PlacedBids, TREASURE_AMOUNT).payouts
             /\ ~round_active']_vars

\* C35: once process_decrypted_bid has accepted a verified bid for an
\* originator, no later call of the same round changes it, and the verified
\* bid equals every decrypted copy recorded for that originator.
C35_VerifiedBidNeverOverwritten ==
    [][/\ \A f \in DOMAIN bids :
             (current_round' = current_round /\ f \in DOMAIN bids')
                => bids'[f] = bids[f]
       /\ \A f \in DOMAIN bids' :
             f \in DOMAIN decrypted_bids'
                => \A t \in DOMAIN decrypted_bids'[f] :
                       decrypted_bids'[f][t] = IntOf(bids'[f])]_vars

\* C36: while a round is open, no step other than the one that closes it
\* clears a recorded bid or advances the round counter.
C36_BidsKeptWhileRoundOpen ==
    [][(round_active /\ rounds_closed' = rounds_closed)
          => /\ current_round' = current_round
             /\ \A c \in DOMAIN bids : c \in DOMAIN bids' /\ bids'[c] = bids[c]]_vars

\* the step writes a message of this type to connection c
Written(c, type) == \E m \in out' : m.to = c /\ m.type = type

\* C37: to each connected peer the server writes START_ROUND and END_ROUND
\* strictly alternating, beginning with START_ROUND.
C37_RoundMessagesAlternate ==
    [][\A c \in DOMAIN heard :
          /\ Written(c, "START_ROUND") => heard[c] # "START_ROUND"
          /\ Written(c, "END_ROUND") => heard[c] = "START_ROUND"]_vars

\* C38: a step in which send_bid runs sends a Bid only if the client's latest
\* round message is START_ROUND; before the first START_ROUND and after an
\* END_ROUND it sends nothing and leaves player_id, player_keys and
\* _round_active as they were.
C38_BidOnlyInActiveRound ==
    [][(bid_msg' # NoBidMessage /\ heard[ClientConn] # "START_ROUND")
          => /\ bid_msg' = UnsentBid
             /\ bid_input'.player_id = bid_input.player_id
             /\ bid_input'.player_keys = bid_input.player_keys
             /\ bid_input'.round_active = bid_input.round_active]_vars

\* send_bid has been called after an END_ROUND, by a client that knows a peer
C38_Witness ==
    /\ heard[ClientConn] = "END_ROUND"
    /\ bid_input.player_keys # {}
    /\ bid_msg = UnsentBid

\* C39: for a bid map with every bid in [0, treasure_amount], the payouts of
\* calculate_payouts sum to at most the treasure and none is negative.
C39_PayoutsWithinTreasure ==
    (ChestDone /\ \A p \in DOMAIN chest_bids : validate_bid(chest_bids[p], TREASURE_AMOUNT))
      => /\ SumOver(chest_result.payouts, DOMAIN chest_result.payouts) <= TREASURE_AMOUNT
         /\ \A p \in DOMAIN chest_result.payouts : chest_result.payouts[p] >= 0

\* the bids exceed the treasure and two bidders share it
C39_Witness ==
    /\ ChestDone
    /\ chest_result.exceeded_limit
    /\ Cardinality(DOMAIN chest_result.payouts) >= 2
    /\ \A p \in DOMAIN chest_bids : validate_bid(chest_bids[p], TREASURE_AMOUNT)

\* C40: is_game_over() is false in every state in which fewer than max_rounds
\* rounds have been closed.
C40_NotOverBeforeMaxRounds == rounds_closed < max_rounds => ~is_game_over

====
